---- MODULE Spec2Model ----
(***************************************************************************)
(* Model of the valuation engine of the estimated-value screen             *)
(* (src/src/components/screens/EstimatedValue.tsx, the `calculations`      *)
(* memo) and of the tables it reads, of the screen's state, handlers and   *)
(* effects around the memo, of the intro screen that chooses the player    *)
(* and the comps (src/unnamed/part_001), of the contract structure         *)
(* simulator (src/src/components/narrative/ContractContext.tsx), and of    *)
(* the side panel (src/src/components/narrative/NarrativeSidePanel.tsx).   *)
(*                                                                         *)
(* Specifications: Spec (the memo body on bounded inputs), SpecScreen      *)
(* (the mounted screen), SpecIntro (the intro screen), SpecContract (the   *)
(* simulator), SpecPanel (the side panel).  Each leaves the variables of   *)
(* the others at rest.                                                     *)
(*                                                                         *)
(* Numbers.  A JavaScript number is modelled as a pair <<n, d>>:           *)
(*   d > 0   the finite value n/d, kept in lowest terms;                   *)
(*   <<0,0>> NaN;  <<1,0>> +Infinity;  <<-1,0>> -Infinity.                 *)
(* The value `undefined` (a missing field or key) is <<0,-1>>; arithmetic  *)
(* converts it to NaN as ToNumber does.  Finite arithmetic is exact: the   *)
(* rounding of IEEE doubles and the sign of zero are not modelled.         *)
(***************************************************************************)
EXTENDS Integers, Sequences, FiniteSets, TLC

\* ------------------------------------------------------------------------
\* Bounds of the model
\* ------------------------------------------------------------------------
\* largest number of comps handed to the screen
MaxComps == 2

\* ------------------------------------------------------------------------
\* JavaScript numbers
\* ------------------------------------------------------------------------
NaN == <<0, 0>>
PosInf == <<1, 0>>
NegInf == <<-1, 0>>
Undef == <<0, -1>>

AbsInt(i) == IF i < 0 THEN 0 - i ELSE i

SignInt(i) == IF i < 0 THEN -1 ELSE IF i > 0 THEN 1 ELSE 0

RECURSIVE GCD(_, _)
GCD(a, b) == IF b = 0 THEN a ELSE GCD(b, a % b)

\* the finite number n/d (d # 0), in lowest terms with a positive denominator
R(n, d) ==
    LET s == IF d < 0 THEN -1 ELSE 1
        g == GCD(AbsInt(n), AbsInt(d))
    IN  <<(s * n) \div g, AbsInt(d) \div g>>

Num(i) == <<i, 1>>

Zero == <<0, 1>>
One == <<1, 1>>

\* ToNumber: undefined becomes NaN
ToNumber(x) == IF x = Undef THEN NaN ELSE x

IsNaN(x) == ToNumber(x) = NaN

IsFinite(x) == x[2] > 0

\* sign of a non-NaN number: -1, 0 or 1
SignOf(x) == SignInt(x[1])

\* truthiness of a number-or-undefined: undefined, NaN and 0 are falsy
Truthy(x) == x # Undef /\ x # NaN /\ x # Zero

\* a || b
OrElse(a, b) == IF Truthy(a) THEN a ELSE b

Neg(x0) ==
    LET x == ToNumber(x0) IN <<0 - x[1], x[2]>>

Add(x0, y0) ==
    LET x == ToNumber(x0)
        y == ToNumber(y0)
    IN  IF x = NaN \/ y = NaN THEN NaN
        ELSE IF IsFinite(x) /\ IsFinite(y)
             THEN IF x[1] = 0 THEN y
                  ELSE IF y[1] = 0 THEN x
                  ELSE LET g == GCD(x[2], y[2])
                           h == GCD(AbsInt(x[1]), AbsInt(y[1]))
                           inner == R((x[1] \div h) * (y[2] \div g)
                                        + (y[1] \div h) * (x[2] \div g),
                                      (x[2] \div g) * y[2])
                           k == GCD(h, inner[2])
                       IN  <<(h \div k) * inner[1], inner[2] \div k>>
        ELSE IF IsFinite(x) THEN y
        ELSE IF IsFinite(y) THEN x
        ELSE IF x = y THEN x ELSE NaN

Sub(x, y) == Add(x, Neg(y))

Mul(x0, y0) ==
    LET x == ToNumber(x0)
        y == ToNumber(y0)
    IN  IF x = NaN \/ y = NaN THEN NaN
        ELSE IF IsFinite(x) /\ IsFinite(y)
             THEN LET g1 == GCD(AbsInt(x[1]), y[2])
                      g2 == GCD(AbsInt(y[1]), x[2])
                  IN  IF x[1] = 0 \/ y[1] = 0 THEN Zero
                      ELSE <<(x[1] \div g1) * (y[1] \div g2),
                             (x[2] \div g2) * (y[2] \div g1)>>
        ELSE IF SignOf(x) * SignOf(y) = 0 THEN NaN
        ELSE <<SignOf(x) * SignOf(y), 0>>

Div(x0, y0) ==
    LET x == ToNumber(x0)
        y == ToNumber(y0)
    IN  IF x = NaN \/ y = NaN THEN NaN
        ELSE IF IsFinite(x) /\ IsFinite(y)
             THEN IF y[1] # 0
                  THEN LET g1 == GCD(AbsInt(x[1]), AbsInt(y[1]))
                           g2 == GCD(x[2], y[2])
                       IN  IF x[1] = 0 THEN Zero
                           ELSE R((x[1] \div g1) * (y[2] \div g2),
                                  (x[2] \div g2) * (y[1] \div g1))
                  ELSE IF x[1] = 0 THEN NaN
                  ELSE <<SignOf(x), 0>>
        ELSE IF IsFinite(x) THEN Zero
        ELSE IF IsFinite(y)
             THEN <<SignOf(x) * (IF SignOf(y) < 0 THEN -1 ELSE 1), 0>>
        ELSE NaN

\* x < y; false when either side is NaN
Lt(x0, y0) ==
    LET x == ToNumber(x0)
        y == ToNumber(y0)
    IN  /\ x # NaN
        /\ y # NaN
        /\ IF IsFinite(x) /\ IsFinite(y)
           THEN LET g == GCD(x[2], y[2])
                IN  x[1] * (y[2] \div g) < y[1] * (x[2] \div g)
           ELSE x # y /\ (x = NegInf \/ y = PosInf)

Gt(x, y) == Lt(y, x)

\* x === y on numbers; false when either side is NaN
Eq(x0, y0) ==
    LET x == ToNumber(x0)
        y == ToNumber(y0)
    IN  x # NaN /\ y # NaN /\ x = y

Le(x, y) == Lt(x, y) \/ Eq(x, y)

Ge(x, y) == Le(y, x)

\* x !== y
Neq(x, y) == ~Eq(x, y)

MathMax(x0, y0) ==
    LET x == ToNumber(x0)
        y == ToNumber(y0)
    IN  IF x = NaN \/ y = NaN THEN NaN ELSE IF Lt(x, y) THEN y ELSE x

MathMin(x0, y0) ==
    LET x == ToNumber(x0)
        y == ToNumber(y0)
    IN  IF x = NaN \/ y = NaN THEN NaN ELSE IF Lt(y, x) THEN y ELSE x

MathAbs(x0) ==
    LET x == ToNumber(x0) IN <<AbsInt(x[1]), x[2]>>

MathSign(x0) ==
    LET x == ToNumber(x0) IN IF x = NaN THEN NaN ELSE Num(SignOf(x))

\* Math.round: the nearest integer, halves towards +Infinity
MathRound(x0) ==
    LET x == ToNumber(x0)
    IN  IF ~IsFinite(x) THEN x
        ELSE Num((2 * x[1] + x[2]) \div (2 * x[2]))

\* Math.pow(x, k) for an integer k >= 0
RECURSIVE MathPow(_, _)
MathPow(x, k) == IF k = 0 THEN One ELSE Mul(x, MathPow(x, k - 1))

\* seq.reduce((sum, v) => sum + v, 0)
RECURSIVE SumSeq(_)
SumSeq(s) ==
    IF Len(s) = 0 THEN Zero
    ELSE Add(SumSeq(SubSeq(s, 1, Len(s) - 1)), s[Len(s)])

\* the list <<f(1), ..., f(n)>>
MapIndex(n, f(_)) ==
    LET F[k \in 0..n] == IF k = 0 THEN <<>> ELSE Append(F[k - 1], f(k))
    IN  F[n]

\* obj[key]: undefined when the key is absent
Lookup(obj, key) == IF key \in DOMAIN obj THEN obj[key] ELSE Undef

\* ------------------------------------------------------------------------
\* Stat configuration tables
\* ------------------------------------------------------------------------
STAT_CONFIG ==
    <<
       [key |-> "fg_RBI", label |-> "RBI", higherBetter |-> TRUE, weight |-> R(1, 10)],
       [key |-> "fg_HR", label |-> "HR", higherBetter |-> TRUE, weight |-> R(1, 10)],
       [key |-> "fg_OPS", label |-> "OPS", higherBetter |-> TRUE, weight |-> R(1, 10)],
       [key |-> "fg_wRC+", label |-> "wRC+", higherBetter |-> TRUE, weight |-> R(1, 10)],
       [key |-> "fg_BB%", label |-> "BB%", higherBetter |-> TRUE, weight |-> R(1, 10)],
       [key |-> "fg_K%", label |-> "K%", higherBetter |-> FALSE, weight |-> R(1, 10)],
       [key |-> "fg_PA", label |-> "PA", higherBetter |-> TRUE, weight |-> R(1, 10)],
       [key |-> "fg_WAR", label |-> "WAR", higherBetter |-> TRUE, weight |-> R(1, 10)],
       [key |-> "fg_xwOBA", label |-> "xwOBA", higherBetter |-> TRUE, weight |-> R(1, 10)],
       [key |-> "fg_xSLG", label |-> "xSLG", higherBetter |-> TRUE, weight |-> R(1, 10)],
       [key |-> "sc_EV_brl_pa", label |-> "Barrels/PA", higherBetter |-> TRUE, weight |-> R(1, 10)],
       [key |-> "sc_EV_ev50", label |-> "avgEV", higherBetter |-> TRUE, weight |-> R(1, 10)],
       [key |-> "fg_Def", label |-> "Def", higherBetter |-> TRUE, weight |-> R(1, 10)],
       [key |-> "fg_BsR", label |-> "BsR", higherBetter |-> TRUE, weight |-> R(1, 10)]
    >>

PITCHER_STAT_CONFIG ==
    <<
       [key |-> "fg_ERA", label |-> "ERA", higherBetter |-> FALSE, weight |-> R(3, 20)],
       [key |-> "fg_FIP", label |-> "FIP", higherBetter |-> FALSE, weight |-> R(3, 20)],
       [key |-> "fg_xFIP", label |-> "xFIP", higherBetter |-> FALSE, weight |-> R(3, 20)],
       [key |-> "fg_K/9", label |-> "K/9", higherBetter |-> TRUE, weight |-> R(3, 20)],
       [key |-> "fg_BB/9", label |-> "BB/9", higherBetter |-> FALSE, weight |-> R(3, 20)],
       [key |-> "fg_WHIP", label |-> "WHIP", higherBetter |-> FALSE, weight |-> R(3, 20)],
       [key |-> "fg_IP", label |-> "IP", higherBetter |-> TRUE, weight |-> R(1, 10)],
       [key |-> "fg_WAR", label |-> "WAR", higherBetter |-> TRUE, weight |-> R(1, 5)]
    >>

STAT_KEY_MAP ==
    ("fg_RBI" :> "RBI") @@
    ("fg_HR" :> "HR") @@
    ("fg_OPS" :> "OPS") @@
    ("fg_wRC+" :> "wRCplus") @@
    ("fg_BB%" :> "BBpct") @@
    ("fg_K%" :> "Kpct") @@
    ("fg_PA" :> "PA") @@
    ("fg_WAR" :> "WAR") @@
    ("fg_xwOBA" :> "xwOBA") @@
    ("fg_xSLG" :> "xSLG") @@
    ("sc_EV_brl_pa" :> "BarrelPerPA") @@
    ("sc_EV_ev50" :> "EV50") @@
    ("fg_Def" :> "fg_Def") @@
    ("fg_BsR" :> "fg_BsR") @@
    ("fg_ERA" :> "ERA") @@
    ("fg_FIP" :> "FIP") @@
    ("fg_xFIP" :> "xFIP") @@
    ("fg_K/9" :> "Kper9") @@
    ("fg_BB/9" :> "BBper9") @@
    ("fg_WHIP" :> "WHIP") @@
    ("fg_IP" :> "IP")

POSITION_WEIGHTS ==
    ("1B" :>
        (("fg_RBI" :> R(1, 2)) @@
         ("fg_HR" :> R(13, 20)) @@
         ("fg_OPS" :> R(3, 10)) @@
         ("fg_wRC+" :> R(7, 10)) @@
         ("fg_BB%" :> R(1, 5)) @@
         ("fg_K%" :> R(1, 5)) @@
         ("fg_PA" :> R(3, 10)) @@
         ("fg_WAR" :> R(3, 5)) @@
         ("fg_xwOBA" :> R(1, 2)) @@
         ("fg_xSLG" :> R(3, 10)) @@
         ("sc_EV_brl_pa" :> R(3, 10)) @@
         ("sc_EV_ev50" :> R(1, 5)) @@
         ("fg_Def" :> R(1, 10)) @@
         ("fg_BsR" :> R(3, 20)))) @@
    ("DH" :>
        (("fg_RBI" :> R(1, 2)) @@
         ("fg_HR" :> R(3, 5)) @@
         ("fg_OPS" :> R(7, 20)) @@
         ("fg_wRC+" :> R(3, 5)) @@
         ("fg_BB%" :> R(1, 4)) @@
         ("fg_K%" :> R(1, 4)) @@
         ("fg_PA" :> R(7, 20)) @@
         ("fg_WAR" :> R(3, 5)) @@
         ("fg_xwOBA" :> R(1, 2)) @@
         ("fg_xSLG" :> R(7, 20)) @@
         ("sc_EV_brl_pa" :> R(7, 20)) @@
         ("sc_EV_ev50" :> R(1, 4)) @@
         ("fg_Def" :> R(0, 1)) @@
         ("fg_BsR" :> R(1, 20)))) @@
    ("SS" :>
        (("fg_RBI" :> R(1, 5)) @@
         ("fg_HR" :> R(1, 5)) @@
         ("fg_OPS" :> R(3, 10)) @@
         ("fg_wRC+" :> R(1, 2)) @@
         ("fg_BB%" :> R(3, 10)) @@
         ("fg_K%" :> R(3, 10)) @@
         ("fg_PA" :> R(1, 2)) @@
         ("fg_WAR" :> R(3, 5)) @@
         ("fg_xwOBA" :> R(9, 20)) @@
         ("fg_xSLG" :> R(1, 5)) @@
         ("sc_EV_brl_pa" :> R(1, 5)) @@
         ("sc_EV_ev50" :> R(3, 20)) @@
         ("fg_Def" :> R(1, 1)) @@
         ("fg_BsR" :> R(1, 10)))) @@
    ("2B" :>
        (("fg_RBI" :> R(1, 5)) @@
         ("fg_HR" :> R(1, 5)) @@
         ("fg_OPS" :> R(3, 10)) @@
         ("fg_wRC+" :> R(1, 2)) @@
         ("fg_BB%" :> R(3, 10)) @@
         ("fg_K%" :> R(3, 10)) @@
         ("fg_PA" :> R(1, 2)) @@
         ("fg_WAR" :> R(3, 5)) @@
         ("fg_xwOBA" :> R(7, 20)) @@
         ("fg_xSLG" :> R(1, 5)) @@
         ("sc_EV_brl_pa" :> R(1, 5)) @@
         ("sc_EV_ev50" :> R(3, 20)) @@
         ("fg_Def" :> R(7, 10)) @@
         ("fg_BsR" :> R(1, 2)))) @@
    ("3B" :>
        (("fg_RBI" :> R(2, 5)) @@
         ("fg_HR" :> R(11, 20)) @@
         ("fg_OPS" :> R(3, 10)) @@
         ("fg_wRC+" :> R(9, 20)) @@
         ("fg_BB%" :> R(1, 5)) @@
         ("fg_K%" :> R(1, 5)) @@
         ("fg_PA" :> R(3, 10)) @@
         ("fg_WAR" :> R(3, 5)) @@
         ("fg_xwOBA" :> R(2, 5)) @@
         ("fg_xSLG" :> R(9, 20)) @@
         ("sc_EV_brl_pa" :> R(3, 10)) @@
         ("sc_EV_ev50" :> R(1, 5)) @@
         ("fg_Def" :> R(11, 20)) @@
         ("fg_BsR" :> R(1, 10)))) @@
    ("CF" :>
        (("fg_RBI" :> R(1, 5)) @@
         ("fg_HR" :> R(1, 5)) @@
         ("fg_OPS" :> R(3, 10)) @@
         ("fg_wRC+" :> R(1, 2)) @@
         ("fg_BB%" :> R(3, 10)) @@
         ("fg_K%" :> R(3, 10)) @@
         ("fg_PA" :> R(2, 5)) @@
         ("fg_WAR" :> R(3, 5)) @@
         ("fg_xwOBA" :> R(2, 5)) @@
         ("fg_xSLG" :> R(1, 5)) @@
         ("sc_EV_brl_pa" :> R(1, 5)) @@
         ("sc_EV_ev50" :> R(3, 20)) @@
         ("fg_Def" :> R(7, 10)) @@
         ("fg_BsR" :> R(11, 20)))) @@
    ("OF" :>
        (("fg_RBI" :> R(1, 5)) @@
         ("fg_HR" :> R(1, 5)) @@
         ("fg_OPS" :> R(3, 10)) @@
         ("fg_wRC+" :> R(1, 2)) @@
         ("fg_BB%" :> R(3, 10)) @@
         ("fg_K%" :> R(3, 10)) @@
         ("fg_PA" :> R(2, 5)) @@
         ("fg_WAR" :> R(3, 5)) @@
         ("fg_xwOBA" :> R(2, 5)) @@
         ("fg_xSLG" :> R(1, 5)) @@
         ("sc_EV_brl_pa" :> R(1, 5)) @@
         ("sc_EV_ev50" :> R(3, 20)) @@
         ("fg_Def" :> R(7, 10)) @@
         ("fg_BsR" :> R(11, 20)))) @@
    ("LF" :>
        (("fg_RBI" :> R(2, 5)) @@
         ("fg_HR" :> R(9, 20)) @@
         ("fg_OPS" :> R(3, 10)) @@
         ("fg_wRC+" :> R(1, 2)) @@
         ("fg_BB%" :> R(3, 10)) @@
         ("fg_K%" :> R(3, 10)) @@
         ("fg_PA" :> R(2, 5)) @@
         ("fg_WAR" :> R(9, 20)) @@
         ("fg_xwOBA" :> R(2, 5)) @@
         ("fg_xSLG" :> R(3, 10)) @@
         ("sc_EV_brl_pa" :> R(1, 4)) @@
         ("sc_EV_ev50" :> R(1, 5)) @@
         ("fg_Def" :> R(1, 2)) @@
         ("fg_BsR" :> R(1, 4)))) @@
    ("RF" :>
        (("fg_RBI" :> R(2, 5)) @@
         ("fg_HR" :> R(9, 20)) @@
         ("fg_OPS" :> R(3, 10)) @@
         ("fg_wRC+" :> R(1, 2)) @@
         ("fg_BB%" :> R(3, 10)) @@
         ("fg_K%" :> R(3, 10)) @@
         ("fg_PA" :> R(2, 5)) @@
         ("fg_WAR" :> R(9, 20)) @@
         ("fg_xwOBA" :> R(2, 5)) @@
         ("fg_xSLG" :> R(3, 10)) @@
         ("sc_EV_brl_pa" :> R(1, 4)) @@
         ("sc_EV_ev50" :> R(1, 5)) @@
         ("fg_Def" :> R(1, 2)) @@
         ("fg_BsR" :> R(1, 4)))) @@
    ("C" :>
        (("fg_RBI" :> R(1, 4)) @@
         ("fg_HR" :> R(1, 4)) @@
         ("fg_OPS" :> R(7, 20)) @@
         ("fg_wRC+" :> R(1, 2)) @@
         ("fg_BB%" :> R(7, 20)) @@
         ("fg_K%" :> R(7, 20)) @@
         ("fg_PA" :> R(3, 5)) @@
         ("fg_WAR" :> R(3, 5)) @@
         ("fg_xwOBA" :> R(7, 20)) @@
         ("fg_xSLG" :> R(3, 10)) @@
         ("sc_EV_brl_pa" :> R(1, 4)) @@
         ("sc_EV_ev50" :> R(1, 5)) @@
         ("fg_Def" :> R(3, 5)) @@
         ("fg_BsR" :> R(1, 20)))) @@
    ("P" :>
        (("fg_ERA" :> R(1, 1)) @@
         ("fg_FIP" :> R(4, 5)) @@
         ("fg_xFIP" :> R(7, 10)) @@
         ("fg_K/9" :> R(6, 5)) @@
         ("fg_BB/9" :> R(4, 5)) @@
         ("fg_WHIP" :> R(9, 10)) @@
         ("fg_IP" :> R(3, 5)) @@
         ("fg_WAR" :> R(3, 2)))) @@
    ("SP" :>
        (("fg_ERA" :> R(6, 5)) @@
         ("fg_FIP" :> R(1, 1)) @@
         ("fg_xFIP" :> R(9, 10)) @@
         ("fg_K/9" :> R(11, 10)) @@
         ("fg_BB/9" :> R(9, 10)) @@
         ("fg_WHIP" :> R(1, 1)) @@
         ("fg_IP" :> R(6, 5)) @@
         ("fg_WAR" :> R(9, 5)))) @@
    ("RP" :>
        (("fg_ERA" :> R(1, 1)) @@
         ("fg_FIP" :> R(4, 5)) @@
         ("fg_xFIP" :> R(7, 10)) @@
         ("fg_K/9" :> R(6, 5)) @@
         ("fg_BB/9" :> R(4, 5)) @@
         ("fg_WHIP" :> R(9, 10)) @@
         ("fg_IP" :> R(3, 5)) @@
         ("fg_WAR" :> R(3, 2))))

\* ------------------------------------------------------------------------
\* Players
\* ------------------------------------------------------------------------
\* A player is a record
\*   [id, isPitcher, position, AAV, years, signedYear,
\*    threeYearStats, threeYearContractStats]
\* A stats snapshot is a function from field names to numbers; a field that
\* is missing from the snapshot reads as undefined.  threeYearContractStats
\* is optional: <<>> when absent, <<snapshot>> when present.

\* isPitcher(player) of data/playerDatabase: the pitcher/hitter classification
isPitcher(player) == player.isPitcher

\* c.threeYearContractStats || c.threeYearStats
preSigningStats(c) ==
    IF Len(c.threeYearContractStats) > 0
    THEN c.threeYearContractStats[1]
    ELSE c.threeYearStats

\* c.threeYearContractStats?.age
contractAge(c) ==
    IF Len(c.threeYearContractStats) > 0
    THEN Lookup(c.threeYearContractStats[1], "age")
    ELSE Undef

\* the stat configuration of the player's type
activeStatConfig(player) ==
    IF isPitcher(player) THEN PITCHER_STAT_CONFIG ELSE STAT_CONFIG

\* Object.fromEntries(Object.entries(config).map(([key, c]) => [key, c.weight]))
DefaultWeights(config) ==
    [k \in {config[i].key : i \in DOMAIN config} |->
        config[CHOOSE i \in DOMAIN config : config[i].key = k].weight]

\* Positions are modelled as trimmed upper-case abbreviations; "" is an
\* empty position.
getWeightsForPosition(position) ==
    IF position \in DOMAIN POSITION_WEIGHTS
    THEN POSITION_WEIGHTS[position]
    ELSE IF position \in {"P", "SP", "RP"}
         THEN DefaultWeights(PITCHER_STAT_CONFIG)
         ELSE DefaultWeights(STAT_CONFIG)

normalizePosition(player, pos) ==
    IF pos = "" THEN (IF isPitcher(player) THEN "SP" ELSE "1B")
    ELSE IF isPitcher(player) THEN (IF pos = "P" THEN "SP" ELSE pos)
    ELSE pos

initialPlayerPosition(player) ==
    normalizePosition(player,
        IF player.position # "" THEN player.position
        ELSE IF isPitcher(player) THEN "SP" ELSE "1B")

\* ------------------------------------------------------------------------
\* The valuation: the body of the `calculations` memo
\* ------------------------------------------------------------------------
presentYear == 2025

sensitivityMultiplier == R(7, 5)

\* COMPS.filter((c) => selectedComps.has(c.id))
ActiveComps(comps, selectedComps) ==
    SelectSeq(comps, LAMBDA c : c.id \in selectedComps)

\* The result returned when no comp is active; fields the branch does not
\* set read as undefined.  naiveStatImpacts, rawImpactSum, impactScale,
\* rawAgeMultiplier and activeCount are locals of the memo body that the
\* model keeps in the result so that properties can speak of them.
\* variant: the empty branch applying the one-year floor of the main path
EmptyResultWithYearsFloor ==
    [baselineAAV |-> Zero, baselineYears |-> Zero,
     fairAAV |-> Zero, fairYears |-> One,
     aavMultiplier |-> One, yearsAdjustment |-> Zero,
     cohortStats |-> <<>>,
     statComparisons |-> <<>>, statImpacts |-> <<>>,
     naiveStatImpacts |-> <<>>,
     rawImpactSum |-> Undef, impactScale |-> Undef,
     ageDelta |-> Undef, ageMultiplier |-> Undef,
     rawAgeMultiplier |-> Undef,
     absoluteAgePenalty |-> Undef, performanceAdjustment |-> Undef,
     proposedYears |-> Undef, cappedYears |-> Undef,
     cohortSigningAge |-> Undef, rawBaselineAAV |-> Undef,
     activeCount |-> 0]

EmptyResult ==
    [baselineAAV |-> Zero, baselineYears |-> Zero,
     fairAAV |-> Zero, fairYears |-> Zero,
     aavMultiplier |-> One, yearsAdjustment |-> Zero,
     cohortStats |-> <<>>,
     statComparisons |-> <<>>, statImpacts |-> <<>>,
     naiveStatImpacts |-> <<>>,
     rawImpactSum |-> Undef, impactScale |-> Undef,
     ageDelta |-> Undef, ageMultiplier |-> Undef,
     rawAgeMultiplier |-> Undef,
     absoluteAgePenalty |-> Undef, performanceAdjustment |-> Undef,
     proposedYears |-> Undef, cappedYears |-> Undef,
     cohortSigningAge |-> Undef, rawBaselineAAV |-> Undef,
     activeCount |-> 0]

\* variant: the rate without the clamp at 0
inflationRateUnclamped(inflationPercent) ==
    Div(inflationPercent, Num(100))

inflationRate(inflationPercent) ==
    Div(MathMax(Zero, inflationPercent), Num(100))

\* one element of adjustedAAVs
adjustedAAV(c, inflationPercent) ==
    LET signedYear == c.signedYear
        yearsSinceSigning ==
            IF Truthy(signedYear)
            THEN MathMax(Zero, Sub(Num(presentYear), signedYear))
            ELSE Zero
        factor == MathPow(Add(One, inflationRate(inflationPercent)),
                          yearsSinceSigning[1])
    IN  Mul(c.AAV, factor)

\* mean of f over the active comps
MeanOver(activeComps, f(_)) ==
    Div(SumSeq(MapIndex(Len(activeComps), LAMBDA i : f(activeComps[i]))),
        Num(Len(activeComps)))

cohortSigningAge(PETE_STATS, activeComps) ==
    OrElse(MeanOver(activeComps,
                LAMBDA c : OrElse(contractAge(c), Lookup(c.threeYearStats, "age"))),
           Lookup(PETE_STATS, "age"))

\* cohortStats[statKey] for the stat of one config key
cohortStat(activeComps, statKey) ==
    IF statKey = "HR"
    THEN LET avgHr == MeanOver(activeComps,
                 LAMBDA c : MathRound(OrElse(Lookup(preSigningStats(c), "HRperPA"), Zero)))
         IN  IF IsNaN(avgHr) THEN Zero ELSE avgHr
    ELSE MeanOver(activeComps,
             LAMBDA c : OrElse(Lookup(preSigningStats(c), statKey), Zero))

cohortStats(config, activeComps) ==
    [statKey \in {STAT_KEY_MAP[config[i].key] : i \in DOMAIN config} |->
        cohortStat(activeComps, statKey)]

pctDiffOf(delta, cohortValue) ==
    IF Lt(MathAbs(cohortValue), R(1, 1000))
    THEN Mul(MathSign(delta), MathMin(Num(500), MathAbs(Mul(delta, Num(100)))))
    ELSE MathMax(Num(-500),
                 MathMin(Num(500), Mul(Div(delta, MathAbs(cohortValue)), Num(100))))

ratioOf(configKey, higherBetter, peteValue, cohortValue, delta) ==
    IF configKey = "fg_Def" \/ configKey = "fg_BsR"
    THEN LET typicalRange == Num(10)
             deltaRatio == Add(One, Mul(Div(delta, typicalRange), R(1, 5)))
         IN  MathMax(R(1, 2), MathMin(Num(2), deltaRatio))
    ELSE IF higherBetter
    THEN LET r == IF Lt(MathAbs(cohortValue), R(1, 1000))
                  THEN (IF Gt(peteValue, Zero) THEN R(11, 10)
                        ELSE IF Lt(peteValue, Zero) THEN R(9, 10) ELSE One)
                  ELSE Div(peteValue, cohortValue)
         IN  MathMax(R(1, 10), MathMin(Num(10), r))
    ELSE LET r == IF Lt(MathAbs(peteValue), R(1, 1000))
                  THEN (IF Gt(cohortValue, Zero) THEN R(11, 10)
                        ELSE IF Lt(cohortValue, Zero) THEN R(9, 10) ELSE One)
                  ELSE Div(cohortValue, peteValue)
         IN  MathMax(R(1, 10), MathMin(Num(10), r))

\* one element of statComparisons
statComparison(cfg, PETE_STATS, cStats, customWeights) ==
    LET statKey == STAT_KEY_MAP[cfg.key]
        peteValue ==
            IF statKey = "HR"
            THEN MathRound(Lookup(PETE_STATS, "HRperPA"))
            ELSE OrElse(Lookup(PETE_STATS, statKey), Zero)
        cohortValue ==
            IF statKey = "HR"
            THEN Lookup(cStats, statKey)
            ELSE OrElse(Lookup(cStats, statKey), Zero)
        delta == Sub(peteValue, cohortValue)
    IN  [stat |-> cfg.label, key |-> cfg.key,
         peteValue |-> peteValue, cohortValue |-> cohortValue,
         ratio |-> ratioOf(cfg.key, cfg.higherBetter, peteValue, cohortValue, delta),
         delta |-> delta,
         pctDiff |-> pctDiffOf(delta, cohortValue),
         weight |-> Lookup(customWeights, cfg.key)]

\* the value of totalWeight inside the map callback of statImpacts, at the
\* element of index i: the weights of the elements 1..i have been added
totalWeightAt(statComparisons, i) ==
    SumSeq(MapIndex(i, LAMBDA j : statComparisons[j].weight))

\* one element of statImpacts (before rescaling)
statImpact(statComparisons, i, baselineAAV) ==
    LET comp == statComparisons[i]
        contribution == Mul(Sub(comp.ratio, One), comp.weight)
        totalWeight == totalWeightAt(statComparisons, i)
    IN  [stat |-> comp.stat, key |-> comp.key,
         peteValue |-> comp.peteValue, cohortValue |-> comp.cohortValue,
         ratio |-> comp.ratio, delta |-> comp.delta,
         pctDiff |-> comp.pctDiff, weight |-> comp.weight,
         contribution |-> contribution,
         aavImpact |-> Div(Mul(baselineAAV, contribution), totalWeight)]

rawAgeMultiplierOf(pitcher, ageDelta) ==
    LET olderDelta == MathMax(Zero, ageDelta)
        youngerDelta == MathMax(Zero, Neg(ageDelta))
        penaltyComponent ==
            IF pitcher
            THEN Add(Mul(R(3, 100), olderDelta),
                     Mul(Mul(R(5, 1000), olderDelta), olderDelta))
            ELSE Add(Mul(R(5, 100), olderDelta),
                     Mul(Mul(R(10, 1000), olderDelta), olderDelta))
        benefitComponent ==
            IF pitcher
            THEN Sub(Mul(R(5, 100), youngerDelta),
                     Mul(Mul(R(2, 1000), youngerDelta), youngerDelta))
            ELSE Sub(Mul(R(3, 100), youngerDelta),
                     Mul(Mul(R(5, 1000), youngerDelta), youngerDelta))
    IN  Add(Sub(One, penaltyComponent), benefitComponent)

\* variant: the hitters' rule for every player
absoluteAgePenaltyHittersRule(pitcher, age) ==
    IF Ge(age, Num(31))
    THEN MathMin(Num(2), Mul(Sub(age, Num(30)), R(25, 100)))
    ELSE Zero

absoluteAgePenaltyOf(pitcher, age) ==
    IF pitcher
    THEN (IF Ge(age, Num(33))
          THEN MathMin(R(3, 2), Mul(Sub(age, Num(32)), R(15, 100)))
          ELSE Zero)
    ELSE (IF Ge(age, Num(31))
          THEN MathMin(Num(2), Mul(Sub(age, Num(30)), R(25, 100)))
          ELSE Zero)

aavMultiplierOf(adjustAAV, scaledMultiplier) ==
    IF adjustAAV
    THEN MathMax(R(1, 2), MathMin(Num(2), scaledMultiplier))
    ELSE One

impactScaleOf(rawImpactSum, actualDifference) ==
    IF Neq(rawImpactSum, Zero)
    THEN Div(actualDifference, rawImpactSum)
    ELSE One

isVeryYoungHighPerformerOf(age, aavMultiplier) ==
    Le(age, Num(25)) /\ Ge(aavMultiplier, R(115, 100))

\* variant: the standard bounds for every player
ageMultiplierStandardBounds(isVeryYoungHighPerformer, rawAgeMultiplier) ==
    MathMax(R(6, 10), MathMin(R(15, 10), rawAgeMultiplier))

ageMultiplierOf(isVeryYoungHighPerformer, rawAgeMultiplier) ==
    IF isVeryYoungHighPerformer
    THEN MathMax(R(6, 10),
                 MathMin(R(18, 10), Mul(rawAgeMultiplier, R(115, 100))))
    ELSE MathMax(R(6, 10), MathMin(R(15, 10), rawAgeMultiplier))

\* variant: the multiplier 1.8 for every player
performanceAdjustmentFlatMultiplier(pitcher, youngerDelta, aavMultiplier) ==
    MathMax(R(-3, 2), MathMin(R(3, 2), Mul(Sub(aavMultiplier, One), R(18, 10))))

performanceAdjustmentOf(pitcher, youngerDelta, aavMultiplier) ==
    LET performanceMultiplier ==
            IF pitcher /\ Gt(youngerDelta, Zero)
            THEN R(275, 100) ELSE R(18, 10)
        performanceAdjustmentRaw ==
            Mul(Sub(aavMultiplier, One), performanceMultiplier)
    IN  MathMax(R(-3, 2), MathMin(R(3, 2), performanceAdjustmentRaw))

\* variant: the adjustment applied whatever the toggle
totalYearsAdjustmentIgnoringToggle(adjustYears, baselineYears, ageMultiplier, absoluteAgePenalty, performanceAdjustment) ==
    Add(Sub(Sub(Mul(baselineYears, ageMultiplier), baselineYears),
            absoluteAgePenalty),
        performanceAdjustment)

totalYearsAdjustmentOf(adjustYears, baselineYears, ageMultiplier, absoluteAgePenalty, performanceAdjustment) ==
    IF adjustYears
    THEN Add(Sub(Sub(Mul(baselineYears, ageMultiplier), baselineYears),
                 absoluteAgePenalty),
             performanceAdjustment)
    ELSE Zero

cappedYearsOf(isVeryYoungHighPerformer, baselineYears, totalYearsAdjustment) ==
    LET softCapLimit == IF isVeryYoungHighPerformer THEN Num(5) ELSE Num(2)
        proposedYears == Add(baselineYears, totalYearsAdjustment)
    IN  MathMin(Add(baselineYears, softCapLimit), proposedYears)

fairYearsOf(cappedYears) ==
    MathMax(One, Div(MathRound(Mul(cappedYears, Num(2))), Num(2)))

\* The memo body is modelled as a pipeline of the sections of the source: each
\* section receives the record c of the locals computed so far and adds its
\* own.  naiveStatImpacts (the source's statImpacts before rescaling),
\* rawImpactSum, impactScale, rawAgeMultiplier, isVeryYoungHighPerformer and
\* activeCount are locals that the model keeps in the result.

\* baselines and cohort aggregates
cohortAggregates(player, activeComps, inflationPercent) ==
    [activeCount |-> Len(activeComps),
     baselineAAV |->
         MeanOver(activeComps, LAMBDA c : adjustedAAV(c, inflationPercent)),
     rawBaselineAAV |-> MeanOver(activeComps, LAMBDA c : c.AAV),
     baselineYears |-> MeanOver(activeComps, LAMBDA c : c.years),
     cohortSigningAge |-> cohortSigningAge(player.threeYearStats, activeComps),
     cohortStats |-> cohortStats(activeStatConfig(player), activeComps)]

withStatComparisons(c, player, customWeights) ==
    c @@ [statComparisons |->
             MapIndex(Len(activeStatConfig(player)), LAMBDA i :
                 statComparison(activeStatConfig(player)[i],
                                player.threeYearStats, c.cohortStats,
                                customWeights))]

\* weightedSum / totalWeight after the statImpacts map
rawMultiplierOf(statComparisons) ==
    Div(SumSeq(MapIndex(Len(statComparisons), LAMBDA i :
            Mul(statComparisons[i].ratio, statComparisons[i].weight))),
        totalWeightAt(statComparisons, Len(statComparisons)))

scaledMultiplierOf(rawMultiplier) ==
    Add(One, Mul(Sub(rawMultiplier, One), sensitivityMultiplier))

withMultiplier(c, adjustAAV) ==
    c @@ [naiveStatImpacts |->
             MapIndex(Len(c.statComparisons), LAMBDA i :
                 statImpact(c.statComparisons, i, c.baselineAAV)),
          aavMultiplier |->
             aavMultiplierOf(adjustAAV,
                 scaledMultiplierOf(rawMultiplierOf(c.statComparisons)))]

withFairAAV(c) ==
    c @@ [fairAAV |-> Mul(c.baselineAAV, c.aavMultiplier),
          rawImpactSum |->
             SumSeq(MapIndex(Len(c.naiveStatImpacts), LAMBDA i :
                 c.naiveStatImpacts[i].aavImpact))]

withImpactScale(c) ==
    c @@ [impactScale |->
             impactScaleOf(c.rawImpactSum, Sub(c.fairAAV, c.baselineAAV))]

\* scaledStatImpacts
withScaledStatImpacts(c) ==
    c @@ [statImpacts |->
             MapIndex(Len(c.naiveStatImpacts), LAMBDA i :
                 [c.naiveStatImpacts[i] EXCEPT
                     !.aavImpact = Mul(c.naiveStatImpacts[i].aavImpact,
                                       c.impactScale)])]

withAgeDelta(c, player) ==
    c @@ [ageDelta |->
             Sub(Lookup(player.threeYearStats, "age"), c.cohortSigningAge)]

withAgeTerms(c, player) ==
    c @@ [rawAgeMultiplier |-> rawAgeMultiplierOf(isPitcher(player), c.ageDelta),
          isVeryYoungHighPerformer |->
             isVeryYoungHighPerformerOf(Lookup(player.threeYearStats, "age"),
                                        c.aavMultiplier),
          absoluteAgePenalty |->
             absoluteAgePenaltyOf(isPitcher(player),
                                  Lookup(player.threeYearStats, "age")),
          performanceAdjustment |->
             performanceAdjustmentOf(isPitcher(player),
                                     MathMax(Zero, Neg(c.ageDelta)),
                                     c.aavMultiplier)]

withAgeMultiplier(c) ==
    c @@ [ageMultiplier |->
             ageMultiplierOf(c.isVeryYoungHighPerformer, c.rawAgeMultiplier)]

\* variant: with the toggle off the stage raises fairAAV as well
withYearsAdjustmentRaisingAAV(c, adjustYears) ==
    [c EXCEPT !.fairAAV = IF adjustYears THEN @ ELSE Add(@, One)]
        @@ [yearsAdjustment |->
               totalYearsAdjustmentOf(adjustYears, c.baselineYears,
                                      c.ageMultiplier, c.absoluteAgePenalty,
                                      c.performanceAdjustment)]

withYearsAdjustment(c, adjustYears) ==
    c @@ [yearsAdjustment |->
             totalYearsAdjustmentOf(adjustYears, c.baselineYears,
                                    c.ageMultiplier, c.absoluteAgePenalty,
                                    c.performanceAdjustment)]

withCappedYears(c) ==
    c @@ [proposedYears |-> Add(c.baselineYears, c.yearsAdjustment),
          cappedYears |->
             cappedYearsOf(c.isVeryYoungHighPerformer, c.baselineYears,
                           c.yearsAdjustment)]

withFairYears(c) ==
    c @@ [fairYears |-> fairYearsOf(c.cappedYears)]

\* The memo body: the valuation of `player` against the comps of `comps`
\* whose id is in selectedComps.
Calculations(player, comps, selectedComps, customWeights, adjustAAV, adjustYears, inflationPercent) ==
    IF Len(ActiveComps(comps, selectedComps)) = 0
    THEN EmptyResult
    ELSE withFairYears(withCappedYears(
           withYearsAdjustment(
             withAgeMultiplier(withAgeTerms(withAgeDelta(
               withScaledStatImpacts(withImpactScale(withFairAAV(
                 withMultiplier(
                   withStatComparisons(
                     cohortAggregates(player,
                                      ActiveComps(comps, selectedComps),
                                      inflationPercent),
                     player, customWeights),
                   adjustAAV)))),
               player), player)),
             adjustYears)))

\* ------------------------------------------------------------------------
\* Inputs of the model
\* ------------------------------------------------------------------------
With(snap, field, v) == [snap EXCEPT ![field] = v]

Without(snap, fields) == [k \in (DOMAIN snap) \ fields |-> snap[k]]

HitterBase ==
    ("RBI" :> Num(100)) @@ ("HRperPA" :> Num(30)) @@ ("OPS" :> R(4, 5)) @@
    ("wRCplus" :> Num(120)) @@ ("BBpct" :> Num(10)) @@ ("Kpct" :> Num(20)) @@
    ("PA" :> Num(600)) @@ ("WAR" :> Num(4)) @@ ("xwOBA" :> R(7, 20)) @@
    ("xSLG" :> R(1, 2)) @@ ("BarrelPerPA" :> Num(10)) @@ ("EV50" :> Num(100)) @@
    ("fg_Def" :> Zero) @@ ("fg_BsR" :> Zero) @@ ("age" :> Num(29))

\* the snapshot of a player without rows: zeros, and no RBI or OPS field
ZeroStats ==
    [k \in {"WAR", "age", "wRCplus", "xwOBA", "xSLG", "HRperPA", "BarrelPerPA",
            "EV50", "BBpct", "Kpct", "PA", "fg_Def", "fg_BsR"} |-> Zero]

PitcherBase ==
    ZeroStats @@
    ("ERA" :> Num(3)) @@ ("FIP" :> Num(3)) @@ ("xFIP" :> Num(3)) @@
    ("Kper9" :> Num(9)) @@ ("BBper9" :> Num(3)) @@ ("WHIP" :> Num(1)) @@
    ("IP" :> Num(180))

MkSubject(id, pitcher, position, stats) ==
    [id |-> id, isPitcher |-> pitcher, position |-> position,
     AAV |-> Zero, years |-> Zero, signedYear |-> Undef,
     threeYearStats |-> stats, threeYearContractStats |-> <<>>]

Subjects ==
    { MkSubject("h_same", FALSE, "2B", HitterBase),
      MkSubject("h_mix", FALSE, "",
          With(With(HitterBase, "RBI", Num(110)), "HRperPA", Num(24))),
      MkSubject("h_cancel", FALSE, "2B",
          With(With(HitterBase, "RBI", Num(125)), "HRperPA", Num(15))),
      MkSubject("h_star", FALSE, "2B",
          With(With(With(HitterBase, "age", Num(24)), "WAR", Num(8)),
               "HRperPA", Num(45))),
      MkSubject("h_old", FALSE, "2B",
          With(With(With(With(With(HitterBase, "age", Num(33)),
               "WAR", Num(-1)), "fg_Def", Num(-60)), "fg_BsR", Num(60)),
               "Kpct", Zero)),
      MkSubject("h_ext", FALSE, "2B",
          With(With(HitterBase, "HRperPA", Num(6000)), "age", Num(40))),
      MkSubject("h_missing", FALSE, "2B",
          Without(HitterBase, {"HRperPA", "RBI", "OPS"})),
      MkSubject("p_young", TRUE, "P",
          With(With(With(With(PitcherBase, "age", Num(24)), "WAR", Num(6)),
               "ERA", Num(2)), "Kper9", Num(12))),
      MkSubject("p_old", TRUE, "RP",
          With(With(With(With(PitcherBase, "age", Num(43)), "WAR", Num(-1)),
               "ERA", Num(6)), "WHIP", Zero)) }

CompPool ==
    << [id |-> "c1", isPitcher |-> FALSE, position |-> "1B",
        AAV |-> Num(20), years |-> Num(4), signedYear |-> Num(2023),
        threeYearStats |-> With(HitterBase, "age", Num(31)),
        threeYearContractStats |-> <<HitterBase>>],
       [id |-> "c2", isPitcher |-> FALSE, position |-> "SS",
        AAV |-> Num(30), years |-> Zero, signedYear |-> Undef,
        threeYearStats |->
            Without(With(With(HitterBase, "age", Zero), "WAR", Zero),
                    {"HRperPA"}),
        threeYearContractStats |-> <<>>],
       [id |-> "c3", isPitcher |-> TRUE, position |-> "SP",
        AAV |-> Num(25), years |-> Num(16), signedYear |-> Num(2025),
        threeYearStats |-> With(With(PitcherBase, "age", Num(30)), "WAR", Num(2)),
        threeYearContractStats |->
            <<With(With(PitcherBase, "age", Num(27)), "WAR", Num(3))>>],
       [id |-> "c4", isPitcher |-> FALSE, position |-> "CF",
        AAV |-> Num(10), years |-> Num(1), signedYear |-> Num(2026),
        threeYearStats |->
            With(With(With(HitterBase, "age", Num(35)), "WAR", Num(-2)),
                 "fg_Def", Num(10)),
        threeYearContractStats |-> <<>>],
       [id |-> "c5", isPitcher |-> TRUE, position |-> "RP",
        AAV |-> Num(15), years |-> Zero, signedYear |-> Num(2024),
        threeYearStats |->
            With(With(With(PitcherBase, "age", Zero), "WAR", Zero), "ERA", Zero),
        threeYearContractStats |-> <<>>] >>

\* the comps of the pool at the indices of I, in the order of the pool
SubList(I) ==
    LET F[k \in 0..Len(CompPool)] ==
            IF k = 0 THEN <<>>
            ELSE IF k \in I THEN Append(F[k - 1], CompPool[k]) ELSE F[k - 1]
    IN  F[Len(CompPool)]

\* the comps lists handed to the screen: 1..MaxComps comps of the pool, of
\* the type of the player (the intro screen offers comps of that type)
CompLists(p) ==
    {SubList(I) : I \in {J \in SUBSET {k \in 1..Len(CompPool) :
                                          isPitcher(CompPool[k]) = isPitcher(p)} :
                            Cardinality(J) >= 1 /\ Cardinality(J) <= MaxComps}}

IdsOf(comps) == {comps[i].id : i \in DOMAIN comps}

\* every key of the config at weight w: the sliders all moved to w
AllWeights(config, w) == [k \in {config[i].key : i \in DOMAIN config} |-> w]

\* the weights in effect: the preset of the player's position, the preset of
\* a position loaded from the positions files, or slider settings
WeightChoices(p) ==
    { getWeightsForPosition(initialPlayerPosition(p)),
      getWeightsForPosition(normalizePosition(p, IF isPitcher(p) THEN "DH" ELSE "P")),
      AllWeights(activeStatConfig(p), Zero),
      AllWeights(activeStatConfig(p), One) }

\* the slider settings among the weight choices
SliderWeights(p) ==
    { AllWeights(activeStatConfig(p), Zero),
      AllWeights(activeStatConfig(p), One) }

\* the inflation settings: a negative value (from storage), 10, and 4 with
\* the slider weights (the exact fractions of 1.04^k stay within 32 bits)
InflationChoices(p, w) ==
    IF w \in SliderWeights(p) THEN {Num(-2), Num(4), Num(10)}
    ELSE {Num(-2), Num(10)}

\* ------------------------------------------------------------------------
\* State
\* ------------------------------------------------------------------------
VARIABLES
    player,           \* the player prop
    comps,            \* the comps prop
    selectedComps,    \* set of comp ids
    customWeights,    \* config key -> weight
    adjustAAV,
    adjustYears,
    inflationPercent,
    calculations,     \* <<>> before the memo has run, <<result>> after
    screen,           \* the rest of the mounted screen's state, or NotMounted
    intro,            \* the state of the intro screen, or NotMounted
    contract,         \* the state of the contract simulator, or NotMounted
    panel             \* the state of the side panel, or NotMounted

vars == <<player, comps, selectedComps, customWeights, adjustAAV, adjustYears,
          inflationPercent, calculations, screen, intro, contract, panel>>

\* the value of a variable of a component that the specification at hand
\* does not mount
NotMounted == [mounted |-> FALSE]

inputs == <<player, comps, selectedComps, customWeights, adjustAAV, adjustYears,
            inflationPercent>>

\* The valuation is a function of its inputs: every combination of inputs
\* of the bounded sets, and no result yet.
Init ==
    /\ player \in Subjects
    /\ comps \in CompLists(player)
    /\ selectedComps \in SUBSET IdsOf(comps)
    /\ customWeights \in WeightChoices(player)
    /\ adjustAAV \in BOOLEAN
    /\ adjustYears \in BOOLEAN
    /\ inflationPercent \in InflationChoices(player, customWeights)
    /\ calculations = <<>>
    /\ screen = NotMounted
    /\ intro = NotMounted
    /\ contract = NotMounted
    /\ panel = NotMounted

\* the memo body runs on the current inputs
Calculate ==
    /\ calculations = <<>>
    /\ calculations' =
           <<Calculations(player, comps, selectedComps, customWeights,
                          adjustAAV, adjustYears, inflationPercent)>>
    /\ UNCHANGED <<inputs, screen, intro, contract, panel>>

Next == Calculate

Spec == Init /\ [][Next]_vars

Done == calculations # <<>>

res == calculations[1]

\* ------------------------------------------------------------------------
\* Properties of the valuation
\* ------------------------------------------------------------------------
\* a valuation of a non-empty cohort has been computed
Valued == Done /\ res.activeCount > 0

ActiveKeys == {activeStatConfig(player)[i].key : i \in DOMAIN activeStatConfig(player)}

\* every active stat has a weight and the weights do not total 0
WeightsUsable ==
    /\ ActiveKeys \subseteq DOMAIN customWeights
    /\ Gt(SumSeq(MapIndex(Len(activeStatConfig(player)),
              LAMBDA i : Lookup(customWeights, activeStatConfig(player)[i].key))),
          Zero)

\* the subject has a value for every active stat
SubjectComplete ==
    \A i \in DOMAIN res.statComparisons :
        ~IsNaN(res.statComparisons[i].peteValue)

SumOfImpacts(impacts) ==
    SumSeq(MapIndex(Len(impacts), LAMBDA i : impacts[i].aavImpact))

\* C1: over a non-empty cohort the scaled per-stat aavImpacts sum to
\* fairAAV - baselineAAV, whatever the inflation and toggles (here for a
\* subject with every stat present and weights that do not total 0).
C1_ImpactsSumToDelta ==
    (Valued /\ SubjectComplete /\ WeightsUsable) =>
              Eq(SumOfImpacts(res.statImpacts),
                 Sub(res.fairAAV, res.baselineAAV))

\* C2: aavMultiplier is within [0.50, 2.0] when AAV adjustment is on and is
\* exactly 1.0 when it is off, for every assignment of weights (here for a
\* subject with every stat present).
C2_MultiplierRange ==
    (Done /\ SubjectComplete) =>
            IF adjustAAV
            THEN Ge(res.aavMultiplier, R(1, 2)) /\ Le(res.aavMultiplier, Num(2))
            ELSE Eq(res.aavMultiplier, One)

IsHalfMultiple(x) == IsFinite(x) /\ x[2] \in {1, 2}

\* C3: every result has fairYears >= 1 and fairYears a multiple of 0.5
\* (here for the results of a non-empty cohort).
C3_FairYearsFloorAndStep ==
    Valued => Ge(res.fairYears, One) /\ IsHalfMultiple(res.fairYears)

C5_PctDiffBounds ==
    Done => \A i \in DOMAIN res.statComparisons :
                LET sc == res.statComparisons[i]
                IN  Ge(sc.pctDiff, Num(-500)) /\ Le(sc.pctDiff, Num(500))

HalfYearRounding(x) == Div(MathRound(Mul(x, Num(2))), Num(2))

\* C6: with the 'adjust years' toggle off the years adjustment is 0
\* and fairYears = round(baselineYears*2)/2 for every cohort.
C6_ToggleOffRoundsBaseline ==
    (Done /\ ~adjustYears) =>
        /\ Eq(res.yearsAdjustment, Zero)
        /\ Eq(res.fairYears, HalfYearRounding(res.baselineYears))

\* C6, with the one-year floor: with the 'adjust years' toggle off the years
\* adjustment is 0 and fairYears = max(1, round(baselineYears*2)/2) for a
\* non-empty cohort, and fairYears = 0 for the empty cohort.
C6_ToggleOffRoundsBaselineWithFloor ==
    (Done /\ ~adjustYears) =>
        /\ Eq(res.yearsAdjustment, Zero)
        /\ IF res.activeCount = 0
           THEN Eq(res.fairYears, Zero)
           ELSE Eq(res.fairYears,
                   MathMax(One, HalfYearRounding(res.baselineYears)))

\* the toggle is off, the cohort's mean term rounds below one year, and the
\* suppressed adjustment would not have been zero
C6_Witness ==
    /\ Valued
    /\ SubjectComplete
    /\ ~adjustYears
    /\ Lt(res.baselineYears, R(3, 4))
    /\ Eq(res.fairYears, One)
    /\ Neq(res.performanceAdjustment, Zero)
    /\ Neq(res.ageMultiplier, One)

\* the selected comps, as a set of indices into comps
SelectedIndices == {i \in DOMAIN comps : comps[i].id \in selectedComps}

SumOverIndices(I, f(_)) ==
    LET S[J \in SUBSET I] ==
            IF J = {} THEN Zero
            ELSE LET i == CHOOSE k \in J : TRUE
                 IN  Add(f(i), S[J \ {i}])
    IN  S[I]

\* AAV * (1+r)^max(0, 2025 - signedYear), r = max(0, inflationPercent)/100,
\* exponent 0 when signedYear is absent
C7_AdjustedAAV(c) ==
    LET r == IF Lt(inflationPercent, Zero) THEN Zero
             ELSE Div(inflationPercent, Num(100))
        e == IF c.signedYear = Undef THEN 0
             ELSE IF 2025 - c.signedYear[1] > 0 THEN 2025 - c.signedYear[1]
             ELSE 0
    IN  Mul(c.AAV, MathPow(Add(One, r), e))

\* C7: baselineAAV is the arithmetic mean over the selected comps of
\* AAV * (1+r)^max(0, 2025 - signedYear) with r = max(0, inflationPercent)/100
\* and exponent 0 for an absent signedYear; a negative inflation setting
\* gives the unadjusted mean.
C7_BaselineIsInflatedMean ==
    Valued =>
        /\ Eq(res.baselineAAV,
              Div(SumOverIndices(SelectedIndices,
                                 LAMBDA i : C7_AdjustedAAV(comps[i])),
                  Num(Cardinality(SelectedIndices))))
        /\ Lt(inflationPercent, Zero) =>
              Eq(res.baselineAAV,
                 Div(SumOverIndices(SelectedIndices, LAMBDA i : comps[i].AAV),
                     Num(Cardinality(SelectedIndices))))

\* the example of the specification: one comp with AAV 20 signed 2023 at 4%
C7_Witness ==
    /\ Valued
    /\ res.activeCount = 1
    /\ \E i \in SelectedIndices :
          comps[i].AAV = Num(20) /\ comps[i].signedYear = Num(2023)
    /\ inflationPercent = Num(4)
    /\ res.baselineAAV = R(21632, 1000)

\* C8: with no active comp the calculation returns the neutral result:
\* baselineAAV, baselineYears, fairAAV, fairYears and yearsAdjustment 0,
\* aavMultiplier 1, and empty comparison and impact lists.
C8_EmptyCohortNeutral ==
    (Done /\ SelectedIndices = {}) =>
        /\ res.baselineAAV = Zero
        /\ res.baselineYears = Zero
        /\ res.fairAAV = Zero
        /\ res.fairYears = Zero
        /\ res.yearsAdjustment = Zero
        /\ res.aavMultiplier = One
        /\ res.statComparisons = <<>>
        /\ res.statImpacts = <<>>

\* the memo has run on a non-empty comps list of which no comp is selected
C8_Witness ==
    Done /\ Len(comps) >= 1 /\ SelectedIndices = {}

\* C9: a missing statistical field of the subject or of a comp is treated as
\* 0: no NaN reaches peteValue, cohortValue or ratio of any active stat, nor
\* (the weights being usable) aavMultiplier, fairAAV or fairYears.
C9_MissingFieldIsZero ==
    Valued =>
        /\ \A i \in DOMAIN res.statComparisons :
              /\ ~IsNaN(res.statComparisons[i].peteValue)
              /\ ~IsNaN(res.statComparisons[i].cohortValue)
              /\ ~IsNaN(res.statComparisons[i].ratio)
        /\ WeightsUsable =>
              /\ ~IsNaN(res.aavMultiplier)
              /\ ~IsNaN(res.fairAAV)
              /\ ~IsNaN(res.fairYears)

\* the total of the weights of all active stats
TotalWeight ==
    SumSeq(MapIndex(Len(res.statComparisons),
                    LAMBDA i : res.statComparisons[i].weight))

\* C10: the naive impact of each stat is
\* baselineAAV * ((ratio-1)*weight) / (total weight of all active stats).
C10_NaiveImpactUsesTotalWeight ==
    (Valued /\ WeightsUsable) =>
        \A i \in DOMAIN res.naiveStatImpacts :
            LET si == res.naiveStatImpacts[i]
            IN  ~IsNaN(si.ratio) =>
                    Eq(si.aavImpact,
                       Div(Mul(res.baselineAAV,
                               Mul(Sub(si.ratio, One), si.weight)),
                           TotalWeight))

\* C11: the rescaling factor is never negative, so a stat with ratio > 1 and
\* positive weight never gets a negative scaled impact, and the factor is 1
\* whenever the naive sum is 0 (here for a subject with every stat present
\* and weights that do not total 0).
C11_ScaleKeepsOrdering ==
    (Valued /\ SubjectComplete /\ WeightsUsable) =>
        /\ Ge(res.impactScale, Zero)
        /\ Eq(res.rawImpactSum, Zero) => Eq(res.impactScale, One)
        /\ \A i \in DOMAIN res.statImpacts :
              (Gt(res.statImpacts[i].ratio, One)
                   /\ Gt(res.statImpacts[i].weight, Zero))
                  => Ge(res.statImpacts[i].aavImpact, Zero)

\* the subject's value is strictly better than the cohort's in the direction
\* of the i-th active stat
StrictlyBetter(i) ==
    IF activeStatConfig(player)[i].higherBetter
    THEN Gt(res.statComparisons[i].peteValue, res.statComparisons[i].cohortValue)
    ELSE Lt(res.statComparisons[i].peteValue, res.statComparisons[i].cohortValue)

StrictlyWorse(i) ==
    IF activeStatConfig(player)[i].higherBetter
    THEN Lt(res.statComparisons[i].peteValue, res.statComparisons[i].cohortValue)
    ELSE Gt(res.statComparisons[i].peteValue, res.statComparisons[i].cohortValue)

\* C12: for every stat a subject value strictly better than the cohort
\* average in the stat's direction gives ratio >= 1 and a strictly worse one
\* gives ratio <= 1, also for zero or negative values.
C12_RatioFollowsDirection ==
    Valued =>
        \A i \in DOMAIN res.statComparisons :
            /\ StrictlyBetter(i) => Ge(res.statComparisons[i].ratio, One)
            /\ StrictlyWorse(i) => Le(res.statComparisons[i].ratio, One)

\* clamp(x, lo, hi)
Clamp(x, lo, hi) == MathMax(lo, MathMin(hi, x))

\* 1 - penalty + benefit with the stated coefficients, o and y being the
\* years the subject is older and younger than the cohort signing age
C13_RawAgeMultiplier ==
    LET age == player.threeYearStats["age"]
        o == MathMax(Zero, Sub(age, res.cohortSigningAge))
        y == MathMax(Zero, Sub(res.cohortSigningAge, age))
        penalty == IF player.isPitcher
                   THEN Add(Mul(R(3, 100), o), Mul(R(5, 1000), Mul(o, o)))
                   ELSE Add(Mul(R(5, 100), o), Mul(R(10, 1000), Mul(o, o)))
        benefit == IF player.isPitcher
                   THEN Sub(Mul(R(5, 100), y), Mul(R(2, 1000), Mul(y, y)))
                   ELSE Sub(Mul(R(3, 100), y), Mul(R(5, 1000), Mul(y, y)))
    IN  Add(Sub(One, penalty), benefit)

C13_YoungElite ==
    /\ Le(player.threeYearStats["age"], Num(25))
    /\ Ge(res.aavMultiplier, R(115, 100))

\* C13: ageMultiplier is rawAgeMultiplier = 1 - penalty + benefit clamped to
\* [0.6, 1.5], except that for a subject aged <= 25 with aavMultiplier >= 1.15
\* the raw value is first multiplied by 1.15 and clamped to [0.6, 1.8].
C13_AgeMultiplier ==
    Valued =>
        /\ Eq(res.rawAgeMultiplier, C13_RawAgeMultiplier)
        /\ Eq(res.ageMultiplier,
              IF C13_YoungElite
              THEN Clamp(Mul(C13_RawAgeMultiplier, R(115, 100)),
                         R(6, 10), R(18, 10))
              ELSE Clamp(C13_RawAgeMultiplier, R(6, 10), R(15, 10)))

\* a hitter aged 24 against a cohort signing age of 29, raw multiplier 1.025,
\* performing well enough for the boost
C13_Witness ==
    /\ Valued
    /\ ~player.isPitcher
    /\ player.threeYearStats["age"] = Num(24)
    /\ res.cohortSigningAge = Num(29)
    /\ res.rawAgeMultiplier = R(1025, 1000)
    /\ C13_YoungElite
    /\ res.ageMultiplier = R(943, 800)

\* the penalty stated for the subject's type and age
C14_Penalty ==
    LET age == player.threeYearStats["age"]
    IN  IF player.isPitcher
        THEN (IF Ge(age, Num(33))
              THEN MathMin(R(15, 10), Mul(Sub(age, Num(32)), R(15, 100)))
              ELSE Zero)
        ELSE (IF Ge(age, Num(31))
              THEN MathMin(Num(2), Mul(Sub(age, Num(30)), R(25, 100)))
              ELSE Zero)

\* C14: the absolute age penalty is min(2.0, (age-30)*0.25) for a hitter aged
\* >= 31, min(1.5, (age-32)*0.15) for a pitcher aged >= 33 and 0 otherwise,
\* hence within [0, 2.0] for hitters and [0, 1.5] for pitchers.
C14_AbsoluteAgePenalty ==
    Valued =>
        /\ Eq(res.absoluteAgePenalty, C14_Penalty)
        /\ Ge(res.absoluteAgePenalty, Zero)
        /\ Le(res.absoluteAgePenalty,
              IF player.isPitcher THEN R(15, 10) ELSE Num(2))

\* a hitter aged 33 loses 0.75 years
C14_Witness ==
    /\ Valued
    /\ ~player.isPitcher
    /\ player.threeYearStats["age"] = Num(33)
    /\ res.absoluteAgePenalty = R(3, 4)


\* x and y are the same number, or both are NaN
Same(x, y) == (IsNaN(x) /\ IsNaN(y)) \/ Eq(x, y)

\* the subject is a pitcher strictly younger than the cohort signing age
C15_YoungerPitcher ==
    player.isPitcher /\ Lt(player.threeYearStats["age"], res.cohortSigningAge)

C15_PerformanceAdjustment ==
    Clamp(Mul(Sub(res.aavMultiplier, One),
              IF C15_YoungerPitcher THEN R(275, 100) ELSE R(18, 10)),
          R(-15, 10), R(15, 10))

\* C15: with 'adjust years' on, yearsAdjustment = baselineYears *
\* (ageMultiplier - 1) - absoluteAgePenalty + performanceAdjustment, where
\* performanceAdjustment = clamp((aavMultiplier - 1) * m, -1.5, 1.5) and m is
\* 2.75 for a pitcher strictly younger than the cohort signing age and 1.8
\* otherwise.
C15_YearsAdjustment ==
    (Valued /\ adjustYears) =>
        /\ Same(res.performanceAdjustment, C15_PerformanceAdjustment)
        /\ Same(res.yearsAdjustment,
                Add(Sub(Mul(res.baselineYears, Sub(res.ageMultiplier, One)),
                        res.absoluteAgePenalty),
                    C15_PerformanceAdjustment))

\* a younger pitcher whose performance term is inside the clamp and not 0
C15_Witness ==
    /\ Valued
    /\ adjustYears
    /\ C15_YoungerPitcher
    /\ Neq(res.performanceAdjustment, Zero)
    /\ Lt(MathAbs(res.performanceAdjustment), R(15, 10))
    /\ Neq(res.ageMultiplier, One)
    /\ Gt(res.baselineYears, Zero)

\* C16: for every non-empty cohort cappedYears <= baselineYears + 2.0, or
\* <= baselineYears + 5.0 for a subject aged <= 25 with aavMultiplier >= 1.15,
\* and fairYears does not exceed the half-year rounding of cappedYears (or 1
\* when that rounding is below 1).
C16_SoftCap ==
    Valued =>
        /\ Le(res.cappedYears,
              Add(res.baselineYears,
                  IF C13_YoungElite THEN Num(5) ELSE Num(2)))
        /\ Le(res.fairYears,
              MathMax(One, HalfYearRounding(res.cappedYears)))

\* ------------------------------------------------------------------------
\* The mounted screen: props, state, handlers, effects and the memo
\* ------------------------------------------------------------------------
\* largest number of events (user operations and prop changes) of a session
MaxEvents == 2

SubjectOf(id) == CHOOSE s \in Subjects : s.id = id

\* the player h_same handed down again after its rows were loaded anew:
\* the same id, another three-year line
ReloadedSubject == MkSubject("h_same", FALSE, "2B", With(HitterBase, "WAR", Num(6)))

\* the players the parent hands to the screen
ScreenSubjects == {SubjectOf("h_same"), ReloadedSubject, SubjectOf("h_star"), SubjectOf("p_young")}

\* the comps the parent chooses from: two hitters and two pitchers of the
\* pool, the first signed in 2024, and a third hitter
ScreenPool == <<[CompPool[1] EXCEPT !.signedYear = Num(2024)], CompPool[4], CompPool[3], CompPool[5], [CompPool[4] EXCEPT !.id = "c6", !.AAV = Num(12)]>>

\* the comps lists the parent hands to the screen with player p: comps of
\* the player's type, the first, the first two, or the second and third
ScreenCompLists(p) ==
    IF isPitcher(p)
    THEN {<<ScreenPool[3]>>, <<ScreenPool[3], ScreenPool[4]>>}
    ELSE {<<ScreenPool[1]>>, <<ScreenPool[1], ScreenPool[2]>>, <<ScreenPool[2], ScreenPool[5]>>}

\* comps.map(c => c.id), the list the effects join with ','
CompIds(list) == [i \in DOMAIN list |-> list[i].id]

\* the positions of the Select that the model chooses from
PositionChoices(p) == IF isPitcher(p) THEN {"SP", "RP"} ELSE {"2B", "DH"}

\* the positions the positions files (Positions.csv and
\* positions_pitchers.csv, read together) yield for player p: for a pitcher
\* the position P, or DH where most of the player's rows are at DH
PrimaryPositionChoices(p) == IF isPitcher(p) THEN {"P", "DH"} ELSE {"SS"}

\* the slider positions the model moves a weight slider to
SliderChoices == {Zero, One}

\* the stat whose slider the model moves
SliderKey(p) == activeStatConfig(p)[1].key

\* the settings of the inflation slider the model chooses from
InflationSliderChoices == {Zero, Num(10)}

\* the object getWeightsForPosition(position) returns: the entry of the
\* table, named by its position, or "" for an object made by the call
WeightsObject(position) == IF position \in DOMAIN POSITION_WEIGHTS THEN position ELSE ""

\* the settings the save effect (lines 408-427) writes for a player
Settings(sel, position, w, a, y, i) ==
    [selectedCompIds |-> sel, selectedPosition |-> position, customWeights |-> w, adjustAAV |-> a, adjustYears |-> y, inflationPercent |-> i]

\* getStorageKey(player.id) (line 292) as the player id: the key is the id
\* after a fixed prefix
getStorageKey(playerId) == playerId

\* variant: the save effect keeps the key of the player the screen was
\* mounted with
saveSettingsUnderFirstKey(p, sel, w, a, y, i, scr) ==
    [scr EXCEPT !.storage = (getStorageKey(scr.firstInputs[1].id) :> Settings(sel, scr.selectedPosition, w, a, y, i)) @@ @]

\* the save effect: the settings of the render are stored under the key of
\* the render's player. In the effects of a render with another player id
\* it runs twice, first with the state of the render and then, after the
\* reset, with the state the effects set; the second value stays
saveSettings(p, sel, w, a, y, i, scr) ==
    [scr EXCEPT !.storage = (getStorageKey(p.id) :> Settings(sel, scr.selectedPosition, w, a, y, i)) @@ @]

\* screen state after the first render and its effects, nothing in storage
\* before: the save effect has stored the initial settings,
\* the state initialisers (lines 330-346), the refs, the memo run once
InitialScreen(p, cs) ==
    [ mounted |-> TRUE,
      selectedPosition |-> initialPlayerPosition(p),
      weightsObject |-> WeightsObject(initialPlayerPosition(p)),
      prevPlayerIdRef |-> p.id,
      prevCompIdsRef |-> CompIds(cs),
      playerPrimaryPosition |-> "",
      savedPosition |-> FALSE,
      primaryDepChanged |-> FALSE,
      storage |-> p.id :> Settings(IdsOf(cs), initialPlayerPosition(p), getWeightsForPosition(initialPlayerPosition(p)), TRUE, TRUE, Num(4)),
      effectsPending |-> FALSE,
      events |-> 0,
      recomputed |-> FALSE,
      firstInputs |-> <<p, cs, IdsOf(cs), getWeightsForPosition(initialPlayerPosition(p)), TRUE, TRUE, Num(4)>>,
      firstResult |-> Calculations(p, cs, IdsOf(cs), getWeightsForPosition(initialPlayerPosition(p)), TRUE, TRUE, Num(4)),
      computedFrom |-> <<p, cs, IdsOf(cs), getWeightsForPosition(initialPlayerPosition(p)), TRUE, TRUE, Num(4)>> ]

\* the screen mounts with a hitter or a pitcher and the first two comps of
\* the player's type; the other players and lists arrive as prop changes
InitialSubjects == {SubjectOf("h_same"), SubjectOf("p_young")}

InitialCompLists(p) == {cs \in ScreenCompLists(p) : CompIds(cs) \in {<<"c1", "c4">>, <<"c3", "c5">>}}

ScreenInit ==
    /\ player \in InitialSubjects
    /\ comps \in InitialCompLists(player)
    /\ selectedComps = IdsOf(comps)
    /\ customWeights = getWeightsForPosition(initialPlayerPosition(player))
    /\ adjustAAV = TRUE
    /\ adjustYears = TRUE
    /\ inflationPercent = Num(4)
    /\ screen = InitialScreen(player, comps)
    /\ calculations = <<screen.firstResult>>
    /\ intro = NotMounted
    /\ contract = NotMounted
    /\ panel = NotMounted

\* the effects of the last render have run
Settled == screen.mounted /\ ~screen.effectsPending

\* a user operation or a prop change can happen
Ready == Settled /\ screen.events < MaxEvents

\* variant: the memo body adds to the fairAAV of the result before
RenderWithCarry(p, cs, sel, w, a, y, i, depsChanged, scr) ==
    /\ player' = p
    /\ comps' = cs
    /\ selectedComps' = sel
    /\ customWeights' = w
    /\ adjustAAV' = a
    /\ adjustYears' = y
    /\ inflationPercent' = i
    /\ calculations' = IF depsChanged THEN <<[Calculations(p, cs, sel, w, a, y, i) EXCEPT !.fairAAV = Add(@, calculations[1].fairAAV)]>> ELSE calculations
    /\ screen' = IF scr.effectsPending THEN scr
                  ELSE saveSettings(p, sel, w, a, y, i, IF depsChanged THEN [scr EXCEPT !.computedFrom = <<p, cs, sel, w, a, y, i>>, !.recomputed = TRUE] ELSE scr)
    /\ UNCHANGED <<intro, contract, panel>>

\* the next render: the memo body runs again iff one of selectedComps,
\* customWeights, adjustAAV, adjustYears, inflationPercent is another value
\* (another object) than at the last render; player and comps are not in
\* the dependency list. The save effect of the render runs with it; after a
\* render with new props it runs with the other effects (RunEffects)
Render(p, cs, sel, w, a, y, i, depsChanged, scr) ==
    /\ player' = p
    /\ comps' = cs
    /\ selectedComps' = sel
    /\ customWeights' = w
    /\ adjustAAV' = a
    /\ adjustYears' = y
    /\ inflationPercent' = i
    /\ calculations' = IF depsChanged THEN <<Calculations(p, cs, sel, w, a, y, i)>> ELSE calculations
    /\ screen' = IF scr.effectsPending THEN scr
                  ELSE saveSettings(p, sel, w, a, y, i, IF depsChanged THEN [scr EXCEPT !.computedFrom = <<p, cs, sel, w, a, y, i>>, !.recomputed = TRUE] ELSE scr)
    /\ UNCHANGED <<intro, contract, panel>>

\* the screen record after one more event
Event(scr) == [scr EXCEPT !.events = @ + 1]

\* variant: the checkbox removes the last selected comp as well
newSetUnguarded(selected, id) ==
    IF id \notin selected THEN selected \cup {id} ELSE selected \ {id}

\* the checkbox of a comp (lines 1142-1155): a new Set in every case
newSet(selected, id) ==
    IF id \notin selected THEN selected \cup {id}
    ELSE IF Cardinality(selected) > 1 THEN selected \ {id} ELSE selected

ToggleComp(id) ==
    /\ Ready
    /\ id \in IdsOf(comps)
    /\ Render(player, comps, newSet(selectedComps, id), customWeights, adjustAAV, adjustYears, inflationPercent, TRUE, Event(screen))

\* a weight slider (lines 1265-1272): a new object with the key set
SlideWeight(key, value) ==
    /\ Ready
    /\ Render(player, comps, selectedComps, (key :> value) @@ customWeights, adjustAAV, adjustYears, inflationPercent, TRUE, [Event(screen) EXCEPT !.weightsObject = ""])

\* the position Select
handlePositionChange(position) ==
    /\ Ready
    /\ Render(player, comps, selectedComps, getWeightsForPosition(position), adjustAAV, adjustYears, inflationPercent, WeightsObject(position) = "" \/ WeightsObject(position) # screen.weightsObject, [Event(screen) EXCEPT !.selectedPosition = position, !.weightsObject = WeightsObject(position)])

\* the inflation slider (lines 1127-1132)
SlideInflation(value) ==
    /\ Ready
    /\ Render(player, comps, selectedComps, customWeights, adjustAAV, adjustYears, value, value # inflationPercent, Event(screen))

\* the switch "Adjust AAV"
SwitchAdjustAAV ==
    /\ Ready
    /\ Render(player, comps, selectedComps, customWeights, ~adjustAAV, adjustYears, inflationPercent, TRUE, Event(screen))

\* the switch "Adjust years"
SwitchAdjustYears ==
    /\ Ready
    /\ Render(player, comps, selectedComps, customWeights, adjustAAV, ~adjustYears, inflationPercent, TRUE, Event(screen))

\* the positions file answers (lines 315-325) and the effect of lines
\* 370-377 runs: the preset of the loaded position replaces the weights
\* unless a position was saved for the player
PrimaryPositionLoaded(primaryPos) ==
    /\ Ready
    /\ primaryPos # screen.playerPrimaryPosition
    /\ IF screen.savedPosition
       THEN Render(player, comps, selectedComps, customWeights, adjustAAV, adjustYears, inflationPercent, FALSE, [Event(screen) EXCEPT !.playerPrimaryPosition = primaryPos])
       ELSE Render(player, comps, selectedComps, getWeightsForPosition(normalizePosition(player, primaryPos)), adjustAAV, adjustYears, inflationPercent, WeightsObject(normalizePosition(player, primaryPos)) = "" \/ WeightsObject(normalizePosition(player, primaryPos)) # screen.weightsObject, [Event(screen) EXCEPT !.playerPrimaryPosition = primaryPos, !.selectedPosition = normalizePosition(player, primaryPos), !.weightsObject = WeightsObject(normalizePosition(player, primaryPos))])

\* the parent renders the screen with other props: the render reads the
\* saved settings of a new player id (lines 292-309), the memo keeps its
\* result (no dependency changed), the effects are due
ChangeProps(p, cs) ==
    /\ Ready
    /\ <<p, cs>> # <<player, comps>>
    /\ Render(p, cs, selectedComps, customWeights, adjustAAV, adjustYears, inflationPercent, FALSE, [Event(screen) EXCEPT !.effectsPending = TRUE, !.savedPosition = IF p.id = player.id THEN @ ELSE getStorageKey(p.id) \in DOMAIN screen.storage, !.primaryDepChanged = p.id # player.id /\ screen.savedPosition # (getStorageKey(p.id) \in DOMAIN screen.storage)])

\* the player-change effect (lines 348-368) found another player id
PlayerChanged == screen.prevPlayerIdRef # player.id

\* the comps effect (lines 379-406) found another list of ids
CompIdsChanged == screen.prevCompIdsRef # CompIds(comps)

\* validSelected of the comps effect
validSelected == selectedComps \cap IdsOf(comps)

\* the comps effect sets the selection: not every selected id is valid
CompsEffectSets == CompIdsChanged /\ ~(validSelected # {} /\ validSelected = selectedComps)

\* the primary-position effect (lines 370-377) runs and sets the weights
PrimaryEffectSets == screen.primaryDepChanged /\ screen.playerPrimaryPosition # "" /\ ~screen.savedPosition

\* the selection after the effects: the comps effect runs last
SelectionAfterEffects ==
    IF CompsEffectSets THEN (IF validSelected # {} THEN validSelected ELSE IdsOf(comps))
    ELSE IF PlayerChanged THEN IdsOf(comps)
    ELSE selectedComps

\* the position after the effects: the primary-position effect runs after
\* the player-change effect
PositionAfterEffects ==
    IF PrimaryEffectSets THEN normalizePosition(player, screen.playerPrimaryPosition)
    ELSE IF PlayerChanged THEN initialPlayerPosition(player)
    ELSE screen.selectedPosition

WeightsSetByEffects == PrimaryEffectSets \/ PlayerChanged

\* the effects of a render with new props run, and the screen renders with
\* the state they set
RunEffects ==
    /\ screen.mounted
    /\ screen.effectsPending
    /\ Render(player, comps, SelectionAfterEffects,
              IF WeightsSetByEffects THEN getWeightsForPosition(PositionAfterEffects) ELSE customWeights,
              IF PlayerChanged THEN TRUE ELSE adjustAAV,
              IF PlayerChanged THEN TRUE ELSE adjustYears,
              IF PlayerChanged THEN Num(4) ELSE inflationPercent,
              \/ PlayerChanged
              \/ CompsEffectSets
              \/ (WeightsSetByEffects /\ (WeightsObject(PositionAfterEffects) = "" \/ WeightsObject(PositionAfterEffects) # screen.weightsObject)),
              [screen EXCEPT !.effectsPending = FALSE,
                             !.primaryDepChanged = FALSE,
                             !.prevPlayerIdRef = player.id,
                             !.prevCompIdsRef = CompIds(comps),
                             !.selectedPosition = PositionAfterEffects,
                             !.weightsObject = IF WeightsSetByEffects THEN WeightsObject(PositionAfterEffects) ELSE @])

ScreenNext ==
    \/ \E id \in {"c1", "c3", "c4", "c5", "c6"} : ToggleComp(id)
    \/ \E value \in SliderChoices : SlideWeight(SliderKey(player), value)
    \/ \E position \in PositionChoices(player) : handlePositionChange(position)
    \/ \E value \in InflationSliderChoices : SlideInflation(value)
    \/ SwitchAdjustAAV
    \/ SwitchAdjustYears
    \/ \E primaryPos \in PrimaryPositionChoices(player) : PrimaryPositionLoaded(primaryPos)
    \/ \E p \in ScreenSubjects : \E cs \in ScreenCompLists(p) : ChangeProps(p, cs)
    \/ RunEffects

SpecScreen == ScreenInit /\ [][ScreenNext]_vars

\* C17: whenever the effects of the screen have settled, the result shown
\* is the valuation of the current player, comps, selection, weights,
\* toggles and inflation rate.
C17_ResultIsCurrent ==
    Settled => calculations = <<Calculations(player, comps, selectedComps, customWeights, adjustAAV, adjustYears, inflationPercent)>>

NoPlayer == [id |-> "null", isPitcher |-> FALSE]

\* the players of the list, in the order of their ids: six hitters and a
\* pitcher
IntroPool ==
    << [id |-> "a1", isPitcher |-> FALSE], [id |-> "a2", isPitcher |-> FALSE],
       [id |-> "a3", isPitcher |-> FALSE], [id |-> "a4", isPitcher |-> FALSE],
       [id |-> "a5", isPitcher |-> FALSE], [id |-> "a6", isPitcher |-> FALSE],
       [id |-> "b1", isPitcher |-> TRUE] >>

IntroPlayers == {IntroPool[i] : i \in DOMAIN IntroPool}

RECURSIVE Occurrences(_, _)
Occurrences(list, id) ==
    IF list = <<>> THEN 0
    ELSE (IF Head(list).id = id THEN 1 ELSE 0) + Occurrences(Tail(list), id)

Repeat(x, n) == [i \in 1..n |-> x]

\* list.map(c => c.id).sort(), the list the sync effect joins with ','
SortedIds(list) ==
    LET F[k \in 0..Len(IntroPool)] ==
            IF k = 0 THEN <<>>
            ELSE F[k - 1] \o Repeat(IntroPool[k].id, Occurrences(list, IntroPool[k].id))
    IN  F[Len(IntroPool)]

\* the intro screen after mounting with the initial props p and cs
MountedIntro(p, cs) ==
    [ mounted |-> TRUE,
      selectedPlayer |-> p,
      selectedComps |-> cs,
      initialSelectedPlayer |-> p,
      initialSelectedComps |-> cs,
      prevInitialPlayerRef |-> p.id,
      prevInitialCompsRef |-> SortedIds(cs),
      prevPlayerIdRef |-> p.id,
      effectsPending |-> FALSE,
      begun |-> <<>> ]

\* the variables of the estimated-value screen
engineVars == <<player, comps, selectedComps, customWeights, adjustAAV, adjustYears, inflationPercent, calculations, screen>>

\* the estimated-value screen is not rendered
EngineNotMounted ==
    /\ player = NoPlayer
    /\ comps = <<>>
    /\ selectedComps = {}
    /\ customWeights = <<>>
    /\ adjustAAV = TRUE
    /\ adjustYears = TRUE
    /\ inflationPercent = Num(4)
    /\ calculations = <<>>
    /\ screen = NotMounted

IntroInit ==
    /\ intro = MountedIntro(NoPlayer, <<>>)
    /\ EngineNotMounted
    /\ contract = NotMounted
    /\ panel = NotMounted

\* the effects have run and the parent has not left the intro screen
IntroReady == intro.mounted /\ ~intro.effectsPending /\ intro.begun = <<>>

\* the parent keeps the selection it is told and hands it back as
\* initialSelectedPlayer and initialSelectedComps
onSelectionChange(int, p, cs) == [int EXCEPT !.initialSelectedPlayer = p, !.initialSelectedComps = cs, !.effectsPending = TRUE]

handlePlayerSelect(p) ==
    /\ IntroReady
    /\ intro.selectedPlayer = NoPlayer
    /\ intro' = [onSelectionChange(intro, p, intro.selectedComps) EXCEPT !.selectedPlayer = p]
    /\ UNCHANGED <<engineVars, contract, panel>>

\* the button of the player card (lines 411-418)
ClearPlayer ==
    /\ IntroReady
    /\ intro.selectedPlayer # NoPlayer
    /\ intro' = [onSelectionChange(intro, NoPlayer, intro.selectedComps) EXCEPT !.selectedPlayer = NoPlayer]
    /\ UNCHANGED <<engineVars, contract, panel>>

HasComp(list, id) == \E i \in DOMAIN list : list[i].id = id

\* the players the comp search offers (lines 729-748)
compCandidates ==
    {p \in IntroPlayers :
        /\ ~HasComp(intro.selectedComps, p.id)
        /\ (intro.selectedPlayer # NoPlayer => p.id # intro.selectedPlayer.id)
        /\ (intro.selectedPlayer # NoPlayer => isPitcher(intro.selectedPlayer) = isPitcher(p))}

\* the search is rendered while fewer than 5 comps are selected (line 698)
handleCompSelect(comp) ==
    /\ IntroReady
    /\ Len(intro.selectedComps) < 5
    /\ comp \in compCandidates
    /\ intro' = IF Len(intro.selectedComps) < 5 /\ ~HasComp(intro.selectedComps, comp.id)
                THEN [onSelectionChange(intro, intro.selectedPlayer, Append(intro.selectedComps, comp)) EXCEPT !.selectedComps = Append(intro.selectedComps, comp)]
                ELSE intro
    /\ UNCHANGED <<engineVars, contract, panel>>

WithoutComp(list, compId) == SelectSeq(list, LAMBDA c : c.id # compId)

handleCompRemove(compId) ==
    /\ IntroReady
    /\ HasComp(intro.selectedComps, compId)
    /\ intro' = [onSelectionChange(intro, intro.selectedPlayer, WithoutComp(intro.selectedComps, compId)) EXCEPT !.selectedComps = WithoutComp(intro.selectedComps, compId)]
    /\ UNCHANGED <<engineVars, contract, panel>>

\* the button is rendered with more than one comp (line 673)
handleClearAll ==
    /\ IntroReady
    /\ Len(intro.selectedComps) > 1
    /\ intro' = [onSelectionChange(intro, intro.selectedPlayer, <<>>) EXCEPT !.selectedComps = <<>>]
    /\ UNCHANGED <<engineVars, contract, panel>>

canBegin == intro.selectedPlayer # NoPlayer /\ Len(intro.selectedComps) >= 1

\* onBegin(selectedPlayer, selectedComps): the cohort handed to the engine
handleBegin ==
    /\ IntroReady
    /\ canBegin
    /\ intro' = [intro EXCEPT !.begun = <<intro.selectedPlayer, intro.selectedComps>>]
    /\ UNCHANGED <<engineVars, contract, panel>>

\* the user navigates back: the intro screen mounts with the selection the
\* parent kept
Remount ==
    /\ intro.mounted
    /\ intro.begun # <<>>
    /\ intro' = MountedIntro(intro.initialSelectedPlayer, intro.initialSelectedComps)
    /\ UNCHANGED <<engineVars, contract, panel>>

\* the sync effect (lines 190-208) finds another initial player, other
\* initial comps
initialPlayerChanged == intro.prevInitialPlayerRef # intro.initialSelectedPlayer.id

initialCompsChanged == intro.prevInitialCompsRef # SortedIds(intro.initialSelectedComps)

\* variant: the filter effect keeps every comp
filteredCompsUnfiltered(p, cs) == cs

\* filteredComps of the filter effect (lines 222-226)
filteredComps(p, cs) ==
    SelectSeq(cs, LAMBDA c : isPitcher(p) = isPitcher(c))

\* the filter effect (lines 211-241) finds another player and drops comps
filterSets ==
    /\ intro.selectedPlayer # NoPlayer
    /\ intro.prevPlayerIdRef # intro.selectedPlayer.id
    /\ Len(filteredComps(intro.selectedPlayer, intro.selectedComps)) # Len(intro.selectedComps)

\* the state after the effects of a render: the sync effect, then the
\* filter effect, both on the state and the props of that render
AfterIntroEffects ==
    [ intro EXCEPT
        !.selectedPlayer = IF initialPlayerChanged THEN intro.initialSelectedPlayer ELSE @,
        !.selectedComps = IF filterSets THEN filteredComps(intro.selectedPlayer, intro.selectedComps)
                          ELSE IF initialCompsChanged THEN intro.initialSelectedComps ELSE @,
        !.initialSelectedPlayer = IF filterSets THEN intro.selectedPlayer ELSE @,
        !.initialSelectedComps = IF filterSets THEN filteredComps(intro.selectedPlayer, intro.selectedComps) ELSE @,
        !.prevInitialPlayerRef = intro.initialSelectedPlayer.id,
        !.prevInitialCompsRef = SortedIds(intro.initialSelectedComps),
        !.prevPlayerIdRef = intro.selectedPlayer.id ]

\* the effects run; they are due again if they set state or told the
\* parent another selection
RunIntroEffects ==
    /\ intro.mounted
    /\ intro.effectsPending
    /\ intro' = [AfterIntroEffects EXCEPT !.effectsPending =
                    \/ AfterIntroEffects.selectedPlayer # intro.selectedPlayer
                    \/ AfterIntroEffects.selectedComps # intro.selectedComps
                    \/ AfterIntroEffects.initialSelectedPlayer # intro.initialSelectedPlayer
                    \/ AfterIntroEffects.initialSelectedComps # intro.initialSelectedComps]
    /\ UNCHANGED <<engineVars, contract, panel>>

IntroNext ==
    \/ \E p \in IntroPlayers : handlePlayerSelect(p)
    \/ ClearPlayer
    \/ \E comp \in IntroPlayers : handleCompSelect(comp)
    \/ \E compId \in {IntroPool[i].id : i \in DOMAIN IntroPool} : handleCompRemove(compId)
    \/ handleClearAll
    \/ handleBegin
    \/ Remount
    \/ RunIntroEffects

SpecIntro == IntroInit /\ [][IntroNext]_vars

\* a cohort of 1 to 5 comps with distinct ids, all of the type of player p
WellFormedCohort(p, cs) ==
    /\ Len(cs) >= 1
    /\ Len(cs) <= 5
    /\ \A i, j \in DOMAIN cs : cs[i].id = cs[j].id => i = j
    /\ \A i \in DOMAIN cs : isPitcher(cs[i]) = isPitcher(p)

\* C19: once the effects have settled, whenever analysis can begin the
\* selection is a cohort of 1 to 5 distinct comps of the type of the
\* selected player, and so is every cohort handed over by Begin.
C19_CohortOfPlayersType ==
    /\ (intro.mounted /\ ~intro.effectsPending /\ canBegin) => WellFormedCohort(intro.selectedPlayer, intro.selectedComps)
    /\ (intro.mounted /\ intro.begun # <<>>) => WellFormedCohort(intro.begun[1], intro.begun[2])

\* Begin handed over a hitter with five comps, the selection the parent
\* handed back
C19_Witness ==
    /\ intro.mounted
    /\ intro.begun # <<>>
    /\ ~isPitcher(intro.begun[1])
    /\ Len(intro.begun[2]) = 5
    /\ intro.prevInitialCompsRef = SortedIds(intro.begun[2])
    /\ intro.initialSelectedComps = intro.begun[2]

\* ------------------------------------------------------------------------
\* The contract structure simulator
\* (src/src/components/narrative/ContractContext.tsx, ContractProvider)
\* ------------------------------------------------------------------------
\* largest number of contract years chosen in the model
MaxYears == 7

\* the terms the breakdown reads; years is a whole number
defaultTerms ==
    [ years |-> 7, baseAAV |-> Num(30), signingBonus |-> Num(15),
      salaryStructure |-> "front-loaded", frontLoadPercent |-> Num(15),
      deferralPercent |-> Zero ]

\* the values updateTerm is called with in the model
TermChoices(key) ==
    IF key = "years" THEN 0..MaxYears
    ELSE IF key = "baseAAV" THEN {Num(20), R(51, 2), Num(30)}
    ELSE IF key = "signingBonus" THEN {Zero, Num(15)}
    ELSE IF key = "salaryStructure" THEN {"even", "front-loaded", "back-loaded"}
    ELSE IF key = "frontLoadPercent" THEN {Zero, Num(15), Num(50)}
    ELSE {Zero, Num(20)}

\* Math.round(x * 10) / 10
RoundToTenth(x) == Div(MathRound(Mul(x, Num(10))), Num(10))

\* baseSalary of the year with index i (from 0) before rounding
baseSalaryOf(terms, i) ==
    IF terms.salaryStructure = "front-loaded"
    THEN (IF i < 3
          THEN Mul(terms.baseAAV, Add(One, Div(terms.frontLoadPercent, Num(100))))
          ELSE Mul(terms.baseAAV, Sub(One, Div(terms.frontLoadPercent, Num(200)))))
    ELSE IF terms.salaryStructure = "back-loaded"
    THEN (IF i < terms.years - 3
          THEN Mul(terms.baseAAV, Sub(One, Div(terms.frontLoadPercent, Num(200))))
          ELSE Mul(terms.baseAAV, Add(One, Div(terms.frontLoadPercent, Num(100)))))
    ELSE terms.baseAAV

bonusOf(terms, i) == IF i = 0 THEN terms.signingBonus ELSE Zero

deferredOf(terms, i) ==
    Mul(Add(baseSalaryOf(terms, i), bonusOf(terms, i)), Div(terms.deferralPercent, Num(100)))

\* variant: the back-loaded raise starts after the third year
calculateYearlyBreakdownRaisingAfterThree(terms) ==
    [ k \in 1..terms.years |->
        [ year |-> 2026 + (k - 1),
          baseSalary |-> RoundToTenth(IF terms.salaryStructure = "back-loaded"
                                      THEN baseSalaryOf([terms EXCEPT !.years = 6], k - 1)
                                      ELSE baseSalaryOf(terms, k - 1)),
          bonus |-> RoundToTenth(bonusOf(terms, k - 1)),
          deferred |-> RoundToTenth(deferredOf(terms, k - 1)),
          totalCash |-> RoundToTenth(Sub(Add(baseSalaryOf(terms, k - 1), bonusOf(terms, k - 1)), deferredOf(terms, k - 1))),
          cbtHit |-> RoundToTenth(Sub(terms.baseAAV, Div(deferredOf(terms, k - 1), Num(terms.years)))) ] ]

\* the rows of the years 2026, 2027, ...
calculateYearlyBreakdown(terms) ==
    [ k \in 1..terms.years |->
        [ year |-> 2026 + (k - 1),
          baseSalary |-> RoundToTenth(baseSalaryOf(terms, k - 1)),
          bonus |-> RoundToTenth(bonusOf(terms, k - 1)),
          deferred |-> RoundToTenth(deferredOf(terms, k - 1)),
          totalCash |-> RoundToTenth(Sub(Add(baseSalaryOf(terms, k - 1), bonusOf(terms, k - 1)), deferredOf(terms, k - 1))),
          cbtHit |-> RoundToTenth(Sub(terms.baseAAV, Div(deferredOf(terms, k - 1), Num(terms.years)))) ] ]

\* yearlyBreakdown.reduce((sum, year) => sum + year.baseSalary + year.bonus, 0)
totalValue(yearlyBreakdown) ==
    LET F[k \in 0..Len(yearlyBreakdown)] ==
            IF k = 0 THEN Zero
            ELSE Add(Add(F[k - 1], yearlyBreakdown[k].baseSalary), yearlyBreakdown[k].bonus)
    IN  F[Len(yearlyBreakdown)]

\* the provider rendered with the terms: the values of the context; stored
\* is the item of localStorage, <<>> when there is none; isDefault says that
\* terms is the object defaultTerms
Provided(terms, stored, isDefault) ==
    [ mounted |-> TRUE,
      terms |-> terms,
      isDefault |-> isDefault,
      stored |-> stored,
      yearlyBreakdown |-> calculateYearlyBreakdown(terms),
      totalValue |-> totalValue(calculateYearlyBreakdown(terms)) ]

\* nothing in storage: getInitialTerms returns defaultTerms, which the save
\* effect stores
ContractInit ==
    /\ contract = Provided(defaultTerms, <<defaultTerms>>, TRUE)
    /\ EngineNotMounted
    /\ intro = NotMounted
    /\ panel = NotMounted

\* setTerms(prev => ({ ...prev, [key]: value })) and the save effect
updateTerm(key, value) ==
    /\ contract.mounted
    /\ contract' = Provided([contract.terms EXCEPT ![key] = value], <<[contract.terms EXCEPT ![key] = value]>>, FALSE)
    /\ UNCHANGED <<engineVars, intro, panel>>

\* setTerms(defaultTerms) and removeItem; the save effect runs if terms is
\* another object than before
resetTerms ==
    /\ contract.mounted
    /\ contract' = Provided(defaultTerms, IF contract.isDefault THEN <<>> ELSE <<defaultTerms>>, TRUE)
    /\ UNCHANGED <<engineVars, intro, panel>>

ContractNext ==
    \/ \E key \in {"years", "baseAAV", "signingBonus", "salaryStructure", "frontLoadPercent", "deferralPercent"} : \E value \in TermChoices(key) : updateTerm(key, value)
    \/ resetTerms

SpecContract == ContractInit /\ [][ContractNext]_vars

BaseSalaries(yearlyBreakdown) == [k \in DOMAIN yearlyBreakdown |-> yearlyBreakdown[k].baseSalary]

Reverse(s) == [k \in DOMAIN s |-> s[Len(s) + 1 - k]]

\* the terms with the front-loaded structure
FrontLoaded(terms) == [terms EXCEPT !.salaryStructure = "front-loaded"]

\* the raised and the lowered salary
RaisedSalary(terms) == Mul(terms.baseAAV, Add(One, Div(terms.frontLoadPercent, Num(100))))

LoweredSalary(terms) == Mul(terms.baseAAV, Sub(One, Div(terms.frontLoadPercent, Num(200))))

\* the back-loaded breakdown shown mirrors the front-loaded breakdown of
\* the same terms, and the totals agree
MirrorsFrontLoaded ==
    /\ BaseSalaries(contract.yearlyBreakdown) = Reverse(BaseSalaries(calculateYearlyBreakdown(FrontLoaded(contract.terms))))
    /\ contract.totalValue = totalValue(calculateYearlyBreakdown(FrontLoaded(contract.terms)))

\* C20: the front-loaded base salaries are baseAAV*(1+f/100) in the first
\* three years and baseAAV*(1-f/200) later; the back-loaded sequence is the
\* front-loaded one reversed and both total the same.
C20_FrontAndBackLoaded ==
    /\ (contract.mounted /\ contract.terms.salaryStructure = "front-loaded") =>
           \A k \in DOMAIN contract.yearlyBreakdown :
               contract.yearlyBreakdown[k].baseSalary =
                   IF k <= 3 THEN RaisedSalary(contract.terms) ELSE LoweredSalary(contract.terms)
    /\ (contract.mounted /\ contract.terms.salaryStructure = "back-loaded") => MirrorsFrontLoaded

\* C20, with the rounding of the breakdown: the front-loaded base salaries
\* are baseAAV*(1+f/100) in the first three years and baseAAV*(1-f/200)
\* later, each rounded to one decimal; the back-loaded sequence is the
\* front-loaded one reversed and both total the same.
C20_FrontAndBackLoadedRounded ==
    /\ (contract.mounted /\ contract.terms.salaryStructure = "front-loaded") =>
           \A k \in DOMAIN contract.yearlyBreakdown :
               contract.yearlyBreakdown[k].baseSalary =
                   IF k <= 3 THEN RoundToTenth(RaisedSalary(contract.terms))
                   ELSE RoundToTenth(LoweredSalary(contract.terms))
    /\ (contract.mounted /\ contract.terms.salaryStructure = "back-loaded") => MirrorsFrontLoaded

\* a back-loaded contract of more than three years whose lowered salary is
\* rounded: the sequence rises and mirrors the front-loaded one
C20_Witness ==
    /\ contract.mounted
    /\ contract.terms.salaryStructure = "back-loaded"
    /\ contract.terms.years > 3
    /\ LoweredSalary(contract.terms) # RoundToTenth(LoweredSalary(contract.terms))
    /\ Lt(contract.yearlyBreakdown[1].baseSalary, contract.yearlyBreakdown[contract.terms.years].baseSalary)
    /\ Gt(contract.terms.signingBonus, Zero)
    /\ MirrorsFrontLoaded

\* ------------------------------------------------------------------------
\* The side panel (NarrativeSidePanel): its steps and the clicks on them
\* ------------------------------------------------------------------------
navigationSteps ==
    << [screen |-> "intro", requiresPlayer |-> FALSE, requiresComps |-> FALSE],
       [screen |-> "player-stats", requiresPlayer |-> TRUE, requiresComps |-> FALSE],
       [screen |-> "player-comparisons", requiresPlayer |-> TRUE, requiresComps |-> FALSE],
       [screen |-> "estimated-value", requiresPlayer |-> TRUE, requiresComps |-> TRUE],
       [screen |-> "team-fit", requiresPlayer |-> TRUE, requiresComps |-> TRUE],
       [screen |-> "contract-architecture", requiresPlayer |-> TRUE, requiresComps |-> TRUE],
       [screen |-> "contract-summary", requiresPlayer |-> TRUE, requiresComps |-> TRUE] >>

\* the player prop of the panel: a player or null
PanelPlayers == {NoPlayer, IntroPool[1], IntroPool[2]}

\* the comps prop of the panel
PanelCompLists == {<<>>, <<IntroPool[3]>>, <<IntroPool[3], IntroPool[4]>>}

\* handleNavigation(step) calls onNavigateTo
handleNavigation(step, p, cs) ==
    IF step.screen = "intro" THEN TRUE
    ELSE IF step.screen \in {"player-stats", "player-comparisons"} THEN p # NoPlayer
    ELSE IF step.requiresPlayer /\ p = NoPlayer THEN FALSE
    ELSE IF step.requiresComps /\ Len(cs) < 1 THEN FALSE
    ELSE p # NoPlayer

\* isStepClickable(step, index), index counted from 1 here (Home is 1)
isStepClickable(step, index, p, cs) ==
    IF step.screen = "intro" THEN TRUE
    ELSE IF (index - 1) - 1 <= 1 THEN p # NoPlayer
    ELSE p # NoPlayer /\ Len(cs) >= 1

\* variant: a step below Home is rendered as soon as a player is selected
shouldShowWithPlayer(step, p, cs) ==
    step.screen = "intro" \/ p # NoPlayer

\* the button of the step is rendered
shouldShow(step, p, cs) ==
    step.screen = "intro" \/ (p # NoPlayer /\ Len(cs) >= 1)

\* the panel rendered on a screen with a player and comps; clicked is the
\* index of the step clicked last (0: none), navigated says that the click
\* called onNavigateTo
Panel(currentScreen, p, cs, clicked, navigated, sidebarOpen) ==
    [mounted |-> TRUE, currentScreen |-> currentScreen, player |-> p, comps |-> cs, clicked |-> clicked, navigated |-> navigated, sidebarOpen |-> sidebarOpen]

PanelInit ==
    /\ panel = Panel("intro", NoPlayer, <<>>, 0, FALSE, TRUE)
    /\ EngineNotMounted
    /\ intro = NotMounted
    /\ contract = NotMounted

\* the parent's onNavigateTo: the panel is rendered on the screen asked for
onNavigateTo(nextScreen, p, cs, index) ==
    panel' = Panel(nextScreen, p, cs, index, TRUE, panel.sidebarOpen)

\* a click on the button of a step: only a rendered button can be clicked,
\* a disabled one (not clickable) does nothing
ClickStep(index) ==
    /\ panel.mounted
    /\ shouldShow(navigationSteps[index], panel.player, panel.comps)
    /\ IF isStepClickable(navigationSteps[index], index, panel.player, panel.comps) /\ handleNavigation(navigationSteps[index], panel.player, panel.comps)
       THEN onNavigateTo(navigationSteps[index].screen, panel.player, panel.comps, index)
       ELSE panel' = [panel EXCEPT !.clicked = index, !.navigated = FALSE]
    /\ UNCHANGED <<engineVars, intro, contract>>

\* the parent renders the panel with another selection
SelectionChanged(p, cs) ==
    /\ panel.mounted
    /\ <<p, cs>> # <<panel.player, panel.comps>>
    /\ panel' = Panel(panel.currentScreen, p, cs, 0, FALSE, panel.sidebarOpen)
    /\ UNCHANGED <<engineVars, intro, contract>>

\* the Menu button: onToggleSidebar(!sidebarOpen), the parent renders the
\* panel wide or narrow
onToggleSidebar ==
    /\ panel.mounted
    /\ panel' = [panel EXCEPT !.sidebarOpen = ~@]
    /\ UNCHANGED <<engineVars, intro, contract>>

PanelNext ==
    \/ onToggleSidebar
    \/ \E index \in DOMAIN navigationSteps : ClickStep(index)
    \/ \E p \in PanelPlayers : \E cs \in PanelCompLists : SelectionChanged(p, cs)

SpecPanel == PanelInit /\ [][PanelNext]_vars

\* C21: on the screen, once the effects have settled, the selected comps
\* are a non-empty set of ids of the current comps, after any checkbox
\* toggles and changes of the comps prop.
C21_SelectionValid ==
    Settled => (selectedComps # {} /\ selectedComps \subseteq IdsOf(comps))

\* a comp was unticked and the comps prop changed afterwards: the effects
\* have settled on a selection that is not the whole of the new list
C21_Witness ==
    /\ Settled
    /\ screen.events >= 2
    /\ CompIds(comps) # CompIds(screen.firstInputs[2])
    /\ selectedComps # {}
    /\ selectedComps # IdsOf(comps)
    /\ selectedComps \subseteq IdsOf(comps)

\* C22: when the effects of a render with another player id have run, every
\* comp of the new comps list is selected, both adjustments are on, the
\* inflation is 4 and the weights are the preset of the player's position,
\* whatever the selection before and the new comps list have in common.
C22_PlayerChangeResets ==
    [][(screen.mounted /\ screen.effectsPending /\ PlayerChanged) =>
          /\ selectedComps' = IdsOf(comps')
          /\ adjustAAV'
          /\ adjustYears'
          /\ inflationPercent' = Num(4)
          /\ customWeights' = getWeightsForPosition(initialPlayerPosition(player'))]_vars

C24_ResetClearsStorage ==
    [][resetTerms => (contract'.terms = defaultTerms /\ contract'.stored = <<>>)]_vars

\* a click on the step can navigate: its button is rendered and clickable
\* and handleNavigation calls onNavigateTo
StepNavigates(index) ==
    /\ shouldShow(navigationSteps[index], panel.player, panel.comps)
    /\ isStepClickable(navigationSteps[index], index, panel.player, panel.comps)
    /\ handleNavigation(navigationSteps[index], panel.player, panel.comps)

\* the prerequisites of the step are selected
PrerequisitesMet(index) ==
    /\ navigationSteps[index].requiresPlayer => panel.player # NoPlayer
    /\ navigationSteps[index].requiresComps => (panel.player # NoPlayer /\ Len(panel.comps) >= 1)

\* every rendered, clickable step navigates when clicked, and the last
\* click did
ShownClickableNavigates ==
    /\ \A index \in DOMAIN navigationSteps :
           (shouldShow(navigationSteps[index], panel.player, panel.comps) /\ isStepClickable(navigationSteps[index], index, panel.player, panel.comps))
               => handleNavigation(navigationSteps[index], panel.player, panel.comps)
    /\ panel.clicked # 0 => (panel.navigated /\ panel.currentScreen = navigationSteps[panel.clicked].screen)

C26_WeightsCoverActiveStats ==
    Settled => \A key \in ActiveKeys : key \in DOMAIN customWeights /\ IsFinite(customWeights[key])

\* the stat configuration a row of the position table is written for
ConfigOfPreset(position) == IF position \in {"P", "SP", "RP"} THEN PITCHER_STAT_CONFIG ELSE STAT_CONFIG

\* the total of the weights of the row of a position
PresetTotal(position) ==
    SumSeq([i \in DOMAIN ConfigOfPreset(position) |-> Lookup(POSITION_WEIGHTS[position], ConfigOfPreset(position)[i].key)])

\* C27: the weights of every row of the position weight table, the hitter
\* positions and P, SP and RP, total 5.0: whichever row the screen has
\* taken its weights from, that row has the keys of its stat configuration
\* and its weights total 5.0.
C27_PresetsTotalFive ==
    screen.mounted =>
        \A position \in DOMAIN POSITION_WEIGHTS :
            screen.weightsObject = position =>
                /\ DOMAIN POSITION_WEIGHTS[position] = {ConfigOfPreset(position)[i].key : i \in DOMAIN ConfigOfPreset(position)}
                /\ Eq(PresetTotal(position), Num(5))

\* C28: for a subject strictly younger than the cohort signing age the
\* benefit term of the age curve (rawAgeMultiplier - 1, the penalty term
\* being 0) is not negative and ageMultiplier is at least 1.
C28_YoungerNeverPenalised ==
    (Valued /\ Lt(res.ageDelta, Zero)) =>
        /\ Ge(Sub(res.rawAgeMultiplier, One), Zero)
        /\ Ge(res.ageMultiplier, One)

\* C29: after any operations of the intro screen, comps chosen before a
\* player and a player cleared and selected again included, the selected
\* player is not one of the selected comps.
C29_PlayerNotAmongComps ==
    (intro.mounted /\ ~intro.effectsPending /\ intro.selectedPlayer # NoPlayer) =>
        ~HasComp(intro.selectedComps, intro.selectedPlayer.id)

\* the result on the same inputs with 'adjust years' flipped
resFlipped == Calculations(player, comps, selectedComps, customWeights, adjustAAV, ~adjustYears, inflationPercent)

\* the outputs that tell of the years: the adjustment and what is computed
\* from it
YearsOutputs == {"yearsAdjustment", "proposedYears", "cappedYears", "fairYears"}

\* C30: with 'adjust years' on and off, the other inputs being the same,
\* baselineAAV, baselineYears, every stat comparison, aavMultiplier,
\* fairAAV, every scaled stat impact and every other output that is not a
\* years output are identical.
C30_AdjustYearsOnlyYears ==
    Done =>
        LET on == res
            off == resFlipped
        IN  \A field \in (DOMAIN on) \ YearsOutputs : on[field] = off[field]

\* a valuation whose years adjustment is not 0 with the toggle on: flipping
\* it changes fairYears and leaves fairAAV and the stat impacts
C30_Witness ==
    /\ Valued
    /\ adjustYears
    /\ adjustAAV
    /\ IsFinite(res.fairAAV)
    /\ res.aavMultiplier # One
    /\ res.yearsAdjustment # Zero
    /\ resFlipped.yearsAdjustment = Zero
    /\ resFlipped.fairYears # res.fairYears
    /\ resFlipped.fairAAV = res.fairAAV
    /\ resFlipped.statImpacts = res.statImpacts
====
